---- MODULE Spec2Model ----
(***************************************************************************)
(* A model of the semfora-explora backend: the enrichment pass             *)
(* (backend/enrich.py), the snapshot and config store (backend/db.py),     *)
(* the load-bearing router (backend/routers/load_bearing.py) and the       *)
(* pivot engine (backend/queries/explore.py).                              *)
(*                                                                         *)
(* A node hash "<module_hash>:<content>" is the pair <<module_hash,        *)
(* content>>; an external hash "ext:<name>" is <<"ext", name>>.            *)
(***************************************************************************)
EXTENDS Integers, Sequences, FiniteSets, TLC

VARIABLES
    \* ---- snapshot store and the enrichment job (Spec)
    fs,         \* the data directory: path -> file (the raw and the derived snapshot)
    epc,        \* position of the enrichment job inside enrich()
    firstNF,    \* the node_features written by the first run that returned normally
    fault,      \* the step that raised in the current or last run ("none": no step)
    hitsFailed, \* whether nx.hits fails to converge on this snapshot's graph
    rpc,        \* position of a request between get_db() and its query
    rpath,      \* the file get_db() chose for the request
    seen,       \* what the request's query found in that file
    \* ---- load-bearing config sidecar and its requests (SpecConfig)
    cfgFile,    \* the file at lb_config_path(repo_id): whether it exists, and its text
    dpc,        \* worker -> position of its declare_lb request
    dconfig,    \* worker -> the local `config` of its declare_lb request
    lastWrite,  \* the config of the write_lb_config call that wrote last
    overlapped, \* whether the declare_lb requests under way or last finished overlapped
    lpc,        \* position of a load_bearing request
    lafter,     \* whether a declare_lb had returned when that request started
    lresult,    \* the response of the last load_bearing request
    lastOp,     \* per hash and module, the last operation of a sequential declare_lb
    \* ---- pivot engine (SpecPivot)
    pdb,        \* the snapshot fetch_pivot is called on
    pivot,      \* the last request to fetch_pivot and its response
    \* ---- analytics kernels (SpecBlast)
    blast,      \* one call of compute_blast_radius: inputs, BFS state, result
    \* ---- analytics kernels (SpecDiff)
    diff,       \* two snapshots and the result of one diff kernel on them
    \* ---- analytics kernels (SpecCycles)
    cycles,     \* one call of find_cycles: its call graph and its result
    \* ---- pattern detection (SpecPatterns)
    patterns,   \* one call of detect_all_patterns: detector outcomes, loop state, result
    \* ---- repo import (SpecImport)
    jobs,       \* the in-memory job store: job_id -> job record
    response    \* the response of the last start_import request

storeVars == <<fs, epc, firstNF, fault, hitsFailed, rpc, rpath, seen>>
cfgVars == <<cfgFile, dpc, dconfig, lastWrite, overlapped, lpc, lafter, lresult, lastOp>>
pivotVars == <<pdb, pivot>>
kernelVars == <<blast, diff, cycles>>
serviceVars == <<patterns, jobs, response>>
vars == <<storeVars, cfgVars, pivotVars, kernelVars, serviceVars>>

\* ------------------------------------------------------------------ bounds

MaxEdges == 3      \* call edges in a generated raw snapshot

\* ------------------------------------------------------- snapshot universe

NULL == "NULL"              \* SQL NULL / Python None

\* The node rows a generated snapshot draws from: (hash, module).
NodeRows ==
    { [hash |-> <<"m1", "1">>, module |-> "m1"],
      [hash |-> <<"m1", "2">>, module |-> "m1"],
      [hash |-> <<"m2", "3">>, module |-> "m2"],
      [hash |-> <<"ext", "x">>, module |-> "__external__"] }

\* hash LIKE 'ext:%'
IsExt(h) == h[1] = "ext"

HashesOf(rows) == { r.hash : r \in rows }

\* module_edges as the indexer aggregates them: (caller_module, callee_module, edge_count)
ModuleOfHash(rows, h) == (CHOOSE r \in rows : r.hash = h).module

ModuleEdges(rows, edges) ==
    { <<cm, dm, Cardinality({ e \in edges : ModuleOfHash(rows, e[1]) = cm
                                          /\ ModuleOfHash(rows, e[2]) = dm })>> :
        <<cm, dm>> \in { <<ModuleOfHash(rows, e[1]), ModuleOfHash(rows, e[2])>> : e \in edges } }

\* Raw snapshots: every edge references two nodes of the snapshot, callers are
\* internal, there are no self-loops and at most MaxEdges edges.
EdgeSets(rows) ==
    { E \in SUBSET { <<u, v>> \in HashesOf(rows) \X HashesOf(rows) : ~IsExt(u) /\ u # v } :
        Cardinality(E) <= MaxEdges }

\* A database file's content.  node_features is the set of its rows, has_nf
\* whether the table exists.
EmptyDb == [nodes |-> {}, edges |-> {}, module_edges |-> {},
            has_nf |-> FALSE, node_features |-> {}]

RawSnapshots ==
    UNION { { [nodes |-> rows, edges |-> E, module_edges |-> ModuleEdges(rows, E),
               has_nf |-> FALSE, node_features |-> {}] : E \in EdgeSets(rows) } :
            rows \in SUBSET NodeRows }

\* A file of the data directory: absent, partial (it exists and its bytes are
\* not all written yet) or a complete database.
AbsentFile == [state |-> "absent", db |-> EmptyDb]
PartialFile == [state |-> "partial", db |-> EmptyDb]
DbFile(db) == [state |-> "db", db |-> db]

exists(file) == file.state # "absent"

\* db.py get_db: base_path; enrich.py enrich: db_path
RawPath == "repo.db"

\* A slip that would write the enrichment over its input.
enriched_path_in_place(db_path) == db_path

\* enrich.py enriched_path / db.py get_db: enriched_path
enriched_path(db_path) == "repo.enriched.db"

Paths == { RawPath, enriched_path(RawPath) }

\* --------------------------------------------------------- graph primitives

Reverse(E) == { <<e[2], e[1]>> : e \in E }

\* The nodes reachable from S along E, S included.
RECURSIVE Closure(_, _)
Closure(S, E) ==
    LET T == S \cup { e[2] : e \in { d \in E : d[1] \in S } }
    IN  IF T = S THEN S ELSE Closure(T, E)

SCCOf(n, E) == Closure({n}, E) \cap Closure({n}, Reverse(E))

\* nx.strongly_connected_components(G): the SCCs, each a set of hashes
strongly_connected_components(G) == { SCCOf(n, G.edges) : n \in G.nodes }

\* nx.condensation(G): one DAG node per SCC (the DAG node is its member set),
\* one edge per ordered pair of distinct SCCs joined by a call edge
condensation(G) ==
    [nodes |-> strongly_connected_components(G),
     edges |-> { d \in { <<SCCOf(e[1], G.edges), SCCOf(e[2], G.edges)>> : e \in G.edges } :
                 d[1] # d[2] }]

\* ------------------------------------------------------------- enrichment

\* A slip that would take the external nodes into the graph as well.
build_graph_with_external(snap) ==
    [nodes |-> HashesOf(snap.nodes),
     edges |-> { e \in snap.edges : e[1] \in HashesOf(snap.nodes) /\ e[2] \in HashesOf(snap.nodes) },
     node_meta |-> snap.nodes]

\* enrich.py _build_graph: the internal call graph and the node metadata
_build_graph(snap) ==
    LET node_rows == { r \in snap.nodes : ~IsExt(r.hash) }
    IN  [nodes |-> HashesOf(node_rows),
         edges |-> { e \in snap.edges : /\ ~IsExt(e[1]) /\ ~IsExt(e[2])
                                        /\ e[1] \in HashesOf(node_rows)
                                        /\ e[2] \in HashesOf(node_rows) },
         node_meta |-> node_rows]

MetaModule(G, h) == (CHOOSE r \in G.node_meta : r.hash = h).module

\* A slip that would flag any node calling into another module.
scc_signals_by_call(G) ==
    [h \in G.nodes |->
        [scc_size |-> Cardinality(SCCOf(h, G.edges)),
         scc_cross_module |->
            IF \E e \in G.edges : e[1] = h /\ MetaModule(G, e[2]) # MetaModule(G, h)
            THEN 1 ELSE 0]]

\* enrich.py _compute_scc_signals
_compute_scc_signals(G) ==
    [h \in G.nodes |->
        LET scc == SCCOf(h, G.edges)
            modules == { MetaModule(G, m) : m \in scc }
        IN  [scc_size |-> Cardinality(scc),
             scc_cross_module |-> IF Cardinality(modules) > 1 THEN 1 ELSE 0]]

\* enrich.py _compute_topo_depths._dag_depth: longest path from any source
RECURSIVE _dag_depth(_, _)
_dag_depth(n, dagEdges) ==
    LET preds == { e[1] : e \in { d \in dagEdges : d[2] = n } }
    IN  IF preds = {} THEN 0
        ELSE LET ds == { _dag_depth(p, dagEdges) : p \in preds }
             IN  1 + (CHOOSE d \in ds : \A o \in ds : o <= d)

\* enrich.py _compute_topo_depths
_compute_topo_depths(G) ==
    LET cond == condensation(G)
    IN  [h \in G.nodes |->
            [topological_depth |-> _dag_depth(SCCOf(h, G.edges), cond.edges),
             reverse_topological_depth |->
                 _dag_depth(SCCOf(h, G.edges), Reverse(cond.edges))]]

\* enrich.py _compute_reachability._reachable_counts: counts[n] starts at
\* scc_size[n]; in reverse topological order every node adds its final count
\* to each of its predecessors, so counts[n] = scc_size[n] + the sum of the
\* final counts of n's direct successors.
RECURSIVE _reachable_counts(_, _), SumOfCounts(_, _)
_reachable_counts(n, dagEdges) ==
    Cardinality(n) + SumOfCounts({ e[2] : e \in { d \in dagEdges : d[1] = n } }, dagEdges)
SumOfCounts(S, dagEdges) ==
    IF S = {} THEN 0
    ELSE LET x == CHOOSE y \in S : TRUE
         IN  _reachable_counts(x, dagEdges) + SumOfCounts(S \ {x}, dagEdges)

\* enrich.py _compute_reachability
_compute_reachability(G) ==
    LET cond == condensation(G)
    IN  [h \in G.nodes |->
            [transitive_callees |-> _reachable_counts(SCCOf(h, G.edges), cond.edges) - 1,
             transitive_callers |->
                 _reachable_counts(SCCOf(h, G.edges), Reverse(cond.edges)) - 1]]

\* Values of the float columns: the library's result or zero.
Computed == "nx"
Zero == "0"

\* enrich.py _compute_centrality: nx.hits failing to converge is caught and
\* zeroes hub and authority; the other measures are the library's results.
_compute_centrality(G, hits_failed) ==
    [h \in G.nodes |->
        [betweenness_centrality |-> Computed,
         pagerank |-> Computed,
         hub_score |-> IF hits_failed THEN Zero ELSE Computed,
         authority_score |-> IF hits_failed THEN Zero ELSE Computed]]

\* enrich.py _compute_boundary_signals: distinct other modules among the
\* callers (xmod_fan_in) and among the internal callees (xmod_fan_out)
_compute_boundary_signals(snap, G) ==
    [h \in G.nodes |->
        [xmod_fan_in |->
            Cardinality({ ModuleOfHash(snap.nodes, e[1]) :
                e \in { d \in snap.edges :
                          /\ d[2] = h
                          /\ ModuleOfHash(snap.nodes, d[1]) # MetaModule(G, h)
                          /\ ModuleOfHash(snap.nodes, d[1]) # "__external__" } }),
         xmod_fan_out |->
            Cardinality({ ModuleOfHash(snap.nodes, e[2]) :
                e \in { d \in snap.edges :
                          /\ d[1] = h
                          /\ ModuleOfHash(snap.nodes, d[2]) # MetaModule(G, h)
                          /\ ModuleOfHash(snap.nodes, d[2]) # "__external__"
                          /\ ~IsExt(d[2]) } })]]

\* louvain_communities(G.to_undirected(), seed=42): on the generated graphs
\* (at most three internal nodes, no self-loops) every local move that joins
\* two adjacent nodes has positive modularity gain, so the communities are
\* the connected components of the undirected projection.
louvain_communities(G) ==
    { Closure({n}, G.edges \cup Reverse(G.edges)) : n \in G.nodes }

\* enrich.py _compute_community_signals, comm_dominant: max(mc, key=mc.get)
\* returns the first module, in the dict's insertion order, with the highest
\* count.  The insertion order is the iteration order of the community (a
\* Python set of str), which follows the process's string-hash seed: `first`
\* is the module that order puts first.
comm_dominant(G, comm, first) ==
    LET count(m) == Cardinality({ h \in comm : MetaModule(G, h) = m })
        best == { m \in { MetaModule(G, h) : h \in comm } :
                    \A o \in { MetaModule(G, h) : h \in comm } : count(o) <= count(m) }
    IN  IF first \in best THEN first ELSE CHOOSE m \in best : TRUE

\* enrich.py _compute_community_signals
_compute_community_signals(G, first) ==
    [h \in G.nodes |->
        LET comm == CHOOSE c \in louvain_communities(G) : h \in c
            dom == comm_dominant(G, comm, first)
        IN  [community_dominant_mod |-> dom,
             community_alignment |-> IF dom = MetaModule(G, h) THEN 1 ELSE 0]]

\* enrich.py enrich, lines 431-490: the steps run in order with no handler
\* around fn(), their results are merged per node and a row is assembled for
\* every node of node_meta.  Columns complexity_pct, middleman_score,
\* stability_rank, xmod_call_ratio, dominant_callee_*, clustering_coeff and the
\* ids scc_id and community_id are left out; utility_score is kept as the
\* arguments (transitive_callers, xmod_fan_in) of its formula.
Steps == << "SCC signals", "Topo depths", "Reachability", "Centrality",
            "Boundary signals", "Community" >>

StepData(label, snap, G, hits_failed, first) ==
    CASE label = "SCC signals"      -> _compute_scc_signals(G)
      [] label = "Topo depths"      -> _compute_topo_depths(G)
      [] label = "Reachability"     -> _compute_reachability(G)
      [] label = "Centrality"       -> _compute_centrality(G, hits_failed)
      [] label = "Boundary signals" -> _compute_boundary_signals(snap, G)
      [] label = "Community"        -> _compute_community_signals(G, first)

\* merged[h].update(vals) for the first k steps
RECURSIVE merged(_, _, _, _, _, _)
merged(k, h, snap, G, hits_failed, first) ==
    IF k = 0 THEN << >>
    ELSE StepData(Steps[k], snap, G, hits_failed, first)[h]
             @@ merged(k - 1, h, snap, G, hits_failed, first)

\* m.get(key, default)
Get(m, key, default) == IF key \in DOMAIN m THEN m[key] ELSE default

AssembleRow(h, m) ==
    [hash |-> h,
     scc_size |-> Get(m, "scc_size", 1),
     scc_cross_module |-> Get(m, "scc_cross_module", 0),
     topological_depth |-> Get(m, "topological_depth", NULL),
     reverse_topological_depth |-> Get(m, "reverse_topological_depth", NULL),
     transitive_callers |-> Get(m, "transitive_callers", 0),
     transitive_callees |-> Get(m, "transitive_callees", 0),
     betweenness_centrality |-> Get(m, "betweenness_centrality", Zero),
     pagerank |-> Get(m, "pagerank", Zero),
     hub_score |-> Get(m, "hub_score", Zero),
     authority_score |-> Get(m, "authority_score", Zero),
     xmod_fan_in |-> Get(m, "xmod_fan_in", 0),
     xmod_fan_out |-> Get(m, "xmod_fan_out", 0),
     utility_score |-> << Get(m, "transitive_callers", 0), Get(m, "xmod_fan_in", 0) >>,
     community_dominant_mod |-> Get(m, "community_dominant_mod", NULL),
     community_alignment |-> Get(m, "community_alignment", 0)]

EnrichRows(snap, hits_failed, first) ==
    LET G == _build_graph(snap)
    IN  { AssembleRow(h, merged(Len(Steps), h, snap, G, hits_failed, first)) : h \in G.nodes }

\* What one run meets: the step that raises (if any) and the set iteration
\* order of its process.  Whether nx.hits converges is a fact of the graph.
Raises == { "none" } \cup { Steps[i] : i \in 1..Len(Steps) }
Modules == { r.module : r \in NodeRows } \ { "__external__" }

\* ---- enrich(db_path), split at its writes to the file system

NoResult == [written |-> FALSE, rows |-> {}]
FirstResult(first, rows) == IF first.written THEN first ELSE [written |-> TRUE, rows |-> rows]

\* shutil.copy2(db_path, out_path) opens out_path for writing: the file
\* exists, truncated, while its bytes are copied
EnrichCopyOpen ==
    /\ epc \in { "idle", "done", "failed" }
    /\ fs' = [fs EXCEPT ![enriched_path(RawPath)] = PartialFile]
    /\ epc' = "copying"
    /\ fault' = "none"
    /\ UNCHANGED <<firstNF, hitsFailed, rpc, rpath, seen>>
    /\ UNCHANGED <<cfgVars, pivotVars, kernelVars, serviceVars>>

\* shutil.copy2 returns: out_path holds the bytes of db_path
EnrichCopyDone ==
    /\ epc = "copying"
    /\ fs' = [fs EXCEPT ![enriched_path(RawPath)] = fs[RawPath]]
    /\ epc' = "copied"
    /\ UNCHANGED <<firstNF, fault, hitsFailed, rpc, rpath, seen>>
    /\ UNCHANGED <<cfgVars, pivotVars, kernelVars, serviceVars>>

\* A slip that would leave the table to the write after the steps.
EnrichSkipTable ==
    /\ epc = "copied"
    /\ epc' = "ddl"
    /\ UNCHANGED <<fs, firstNF, fault, hitsFailed, rpc, rpath, seen>>
    /\ UNCHANGED <<cfgVars, pivotVars, kernelVars, serviceVars>>

\* conn = sqlite3.connect(out_path); conn.execute(DDL); conn.commit()
EnrichCreateTable ==
    /\ epc = "copied"
    /\ fs' = [fs EXCEPT ![enriched_path(RawPath)].db.has_nf = TRUE]
    /\ epc' = "ddl"
    /\ UNCHANGED <<firstNF, fault, hitsFailed, rpc, rpath, seen>>
    /\ UNCHANGED <<cfgVars, pivotVars, kernelVars, serviceVars>>

\* _build_graph, the n == 0 return, the steps, the row assembly and the
\* DELETE + INSERT committed as one transaction
EnrichCompute(raises, first) ==
    /\ epc = "ddl"
    /\ LET out == enriched_path(RawPath)
           G == _build_graph(fs[out].db)
       IN  IF G.nodes = {}
           THEN /\ epc' = "done"
                /\ firstNF' = FirstResult(firstNF, fs[out].db.node_features)
                /\ UNCHANGED <<fs, fault>>
           ELSE IF raises # "none"
           THEN /\ epc' = "failed"
                /\ fault' = raises
                /\ UNCHANGED <<fs, firstNF>>
           ELSE LET rows == EnrichRows(fs[out].db, hitsFailed, first)
                IN  /\ fs' = [fs EXCEPT ![out].db.node_features = rows]
                    /\ epc' = "done"
                    /\ firstNF' = FirstResult(firstNF, rows)
                    /\ UNCHANGED fault
    /\ UNCHANGED <<hitsFailed, rpc, rpath, seen>>
    /\ UNCHANGED <<cfgVars, pivotVars, kernelVars, serviceVars>>

\* ---- a request: db.py get_db, then its first query

NotFound == "404"

\* A slip that would serve the raw snapshot whenever it exists.
get_db_raw_first(files) ==
    IF exists(files[RawPath]) THEN RawPath
    ELSE IF exists(files[enriched_path(RawPath)]) THEN enriched_path(RawPath)
    ELSE NotFound

get_db(files) ==
    LET base_path == RawPath
        enriched == enriched_path(RawPath)
        db_path == IF exists(files[enriched]) THEN enriched ELSE base_path
    IN  IF ~exists(files[db_path]) THEN NotFound ELSE db_path

NothingSeen == [path |-> "none", readable |-> FALSE, has_nf |-> FALSE, node_features |-> {}]

\* The request's query on the file behind its connection.
QueryView(files, path) ==
    IF files[path].state = "db"
    THEN [path |-> path, readable |-> TRUE, has_nf |-> files[path].db.has_nf,
          node_features |-> files[path].db.node_features]
    ELSE [path |-> path, readable |-> FALSE, has_nf |-> FALSE, node_features |-> {}]

ReqOpen ==
    /\ rpc = "idle"
    /\ rpath' = get_db(fs)
    /\ rpc' = IF get_db(fs) = NotFound THEN "idle" ELSE "opened"
    /\ seen' = NothingSeen
    /\ UNCHANGED <<fs, epc, firstNF, fault, hitsFailed>>
    /\ UNCHANGED <<cfgVars, pivotVars, kernelVars, serviceVars>>

ReqQuery ==
    /\ rpc = "opened"
    /\ seen' = QueryView(fs, rpath)
    /\ rpc' = "idle"
    /\ UNCHANGED <<fs, epc, firstNF, fault, hitsFailed, rpath>>
    /\ UNCHANGED <<cfgVars, pivotVars, kernelVars, serviceVars>>

StoreInit ==
    /\ \E snap \in RawSnapshots :
          fs = [p \in Paths |-> IF p = RawPath THEN DbFile(snap) ELSE AbsentFile]
    /\ epc = "idle"
    /\ firstNF = NoResult
    /\ fault = "none"
    /\ hitsFailed \in BOOLEAN
    /\ rpc = "idle"
    /\ rpath = NotFound
    /\ seen = NothingSeen

\* --------------------------------------- load-bearing config (db.py, routers)

\* The hashes and module names a declare request may carry, as the strings of
\* the config document.
DeclHashes == {"m1:2"}
DeclModules == {"ui"}

\* The hashes of requests served one after the other, and the record of no
\* operation on any of them.
SequentialHashes == {"m1:2", "m2:3", "m3:4"}
NoOps ==
    [nodes |-> [h \in SequentialHashes |-> "none"],
     modules |-> [m \in DeclModules |-> "none"]]

\* db.py read_lb_config: the document of a missing file
DefaultConfig == [declared_modules |-> <<>>, declared_nodes |-> <<>>]

\* The sidecar file: whether it exists, and its text as a sequence of JSON tokens.
NoFile == [exists |-> FALSE, text |-> <<>>]

\* json.dumps(config, indent=2): the document's tokens, keys in the dict's order
dumps(config) ==
    <<"{", "declared_modules", "[">> \o config.declared_modules \o
    <<"]", "declared_nodes", "[">> \o config.declared_nodes \o <<"]", "}">>

Punctuation == {"{", "}", "[", "]", "declared_modules", "declared_nodes"}

\* The first position >= from at which tok stands in text, 0 if there is none.
FirstAt(text, tok, from) ==
    IF \E i \in from..Len(text) : text[i] = tok
    THEN CHOOSE i \in from..Len(text) :
            text[i] = tok /\ \A k \in from..(i - 1) : text[k] # tok
    ELSE 0

\* json.loads(text): the parsed document, or JSONDecodeError on anything that
\* is not exactly one document (empty text, a cut document, trailing data).
loads(text) ==
    LET i == FirstAt(text, "]", 4)
        j == IF i = 0 THEN 0 ELSE FirstAt(text, "]", i + 3)
        wellFormed ==
            /\ Len(text) >= 8
            /\ text[1] = "{" /\ text[2] = "declared_modules" /\ text[3] = "["
            /\ i # 0
            /\ Len(text) >= i + 2
            /\ text[i + 1] = "declared_nodes" /\ text[i + 2] = "["
            /\ j # 0
            /\ Len(text) = j + 1
            /\ text[j + 1] = "}"
            /\ \A k \in (4..(i - 1)) \cup ((i + 3)..(j - 1)) : text[k] \notin Punctuation
    IN  IF wellFormed
        THEN [error |-> "none",
              config |-> [declared_modules |-> SubSeq(text, 4, i - 1),
                          declared_nodes |-> SubSeq(text, i + 3, j - 1)]]
        ELSE [error |-> "JSONDecodeError", config |-> DefaultConfig]

\* db.py read_lb_config
read_lb_config(file) ==
    IF file.exists
    THEN loads(file.text)
    ELSE [error |-> "none", config |-> DefaultConfig]

\* Path.write_text, first half: open(mode "w") creates the file or truncates it
open_w(file) == [exists |-> TRUE, text |-> <<>>]

\* Path.write_text, second half: the data is written at this descriptor's own
\* offset 0 and the descriptor is closed; bytes past the data stay.
write_close(file, data) ==
    [exists |-> TRUE, text |-> data \o SubSeq(file.text, Len(data) + 1, Len(file.text))]

\* routers/load_bearing.py LBDeclareRequest
LBDeclareRequest ==
    [hash : {NULL} \cup DeclHashes, module : {NULL} \cup DeclModules, remove : BOOLEAN]

InList(x, list) == \E i \in 1..Len(list) : list[i] = x

\* A slip that would append without the membership test.
declared_append(list, x, remove) ==
    IF remove THEN SelectSeq(list, LAMBDA y : y # x) ELSE Append(list, x)

\* declare_lb: one list after the request's change
Declared(list, x, remove) ==
    IF remove THEN SelectSeq(list, LAMBDA y : y # x)
    ELSE IF ~InList(x, list) THEN Append(list, x)
    ELSE list

\* declare_lb: the config after the request's changes
Modified(config, req) ==
    [declared_modules |->
        IF req.module # NULL
        THEN Declared(config.declared_modules, req.module, req.remove)
        ELSE config.declared_modules,
     declared_nodes |->
        IF req.hash # NULL
        THEN Declared(config.declared_nodes, req.hash, req.remove)
        ELSE config.declared_nodes]

\* analytics/load_bearing.py _LB_KEYWORDS
_LB_KEYWORDS ==
    {"core", "platform", "base", "shared", "common", "infra", "lib", "utils",
     "foundation", "primitives", "runtime", "framework", "kernel"}

\* The rows fetch_lb_candidates returns for the served snapshot; a module is the
\* sequence of the lower-case parts its name splits into at "/", "." and "-".
Candidates ==
    << [hash |-> "m1:2", module |-> <<"m1">>],
       [hash |-> "m2:3", module |-> <<"app", "core">>],
       [hash |-> "m3:4", module |-> <<"ui">>] >>

_module_parts(module) == { module[i] : i \in 1..Len(module) }

\* `m in mod` for a declared module m that is one whole part of a name
IsSubstring(m, mod) == \E i \in 1..Len(mod) : mod[i] = m

\* analytics/load_bearing.py analyze_load_bearing
analyze_load_bearing(candidates, lb_config) ==
    LET declared_hashes == { lb_config.declared_nodes[i] :
                                i \in 1..Len(lb_config.declared_nodes) }
        declared_modules == { lb_config.declared_modules[i] :
                                i \in 1..Len(lb_config.declared_modules) }
        explicitly(node) == \/ node.hash \in declared_hashes
                            \/ \E m \in declared_modules : IsSubstring(m, node.module)
        auto(node) == _module_parts(node.module) \cap _LB_KEYWORDS # {}
        classified ==
            [i \in 1..Len(candidates) |->
                [hash |-> candidates[i].hash,
                 declaration |-> IF explicitly(candidates[i]) THEN "explicit"
                                 ELSE IF auto(candidates[i]) THEN "auto"
                                 ELSE "none"]]
    IN  [declared_load_bearing |->
            SelectSeq(classified, LAMBDA n : n.declaration # "none"),
         unexpected_load_bearing |->
            SelectSeq(classified, LAMBDA n : n.declaration = "none"),
         config |-> lb_config]

\* The pool threads that run the synchronous endpoints.
Workers == {"t1", "t2"}

InProgress(w) == dpc[w] # "idle"

\* The documents a reader may be handed while writes are under way: the one
\* written last (the default before any write) and those being written.
CurrentDocs ==
    {lastWrite.config} \cup { dconfig[w] : w \in { x \in Workers : InProgress(x) } }

\* declare_lb: config = read_lb_config(repo_id), then the request's changes.
\* A document that does not parse ends the request with an error.
DeclareRead(w, req) ==
    /\ dpc[w] = "idle"
    /\ LET got == read_lb_config(cfgFile)
       IN  IF got.error # "none"
           THEN UNCHANGED <<dpc, dconfig, overlapped>>
           ELSE /\ dpc' = [dpc EXCEPT ![w] = "modified"]
                /\ dconfig' = [dconfig EXCEPT ![w] = Modified(got.config, req)]
                /\ overlapped' = \E x \in Workers \ {w} : InProgress(x)
    /\ UNCHANGED <<cfgFile, lastWrite, lpc, lafter, lresult>>
    /\ UNCHANGED lastOp
    /\ UNCHANGED <<storeVars, pivotVars, kernelVars, serviceVars>>

\* write_lb_config: write_text opens the file
DeclareOpen(w) ==
    /\ dpc[w] = "modified"
    /\ cfgFile' = open_w(cfgFile)
    /\ dpc' = [dpc EXCEPT ![w] = "opened"]
    /\ UNCHANGED <<dconfig, lastWrite, overlapped, lpc, lafter, lresult>>
    /\ UNCHANGED lastOp
    /\ UNCHANGED <<storeVars, pivotVars, kernelVars, serviceVars>>

\* write_lb_config: write_text writes and closes; declare_lb returns
DeclareWrite(w) ==
    /\ dpc[w] = "opened"
    /\ cfgFile' = write_close(cfgFile, dumps(dconfig[w]))
    /\ lastWrite' = [written |-> TRUE, config |-> dconfig[w]]
    /\ dpc' = [dpc EXCEPT ![w] = "idle"]
    /\ dconfig' = [dconfig EXCEPT ![w] = DefaultConfig]
    /\ UNCHANGED <<overlapped, lpc, lafter, lresult>>
    /\ UNCHANGED lastOp
    /\ UNCHANGED <<storeVars, pivotVars, kernelVars, serviceVars>>

\* The body of a response that carries no analysis.
NoBody == analyze_load_bearing(<<>>, DefaultConfig)

NoResponse ==
    [status |-> "none", during |-> FALSE, after |-> FALSE, current |-> {},
     body |-> NoBody]

\* load_bearing: conn = get_db(repo_id); candidates = fetch_lb_candidates(...)
LoadBearingOpen ==
    /\ lpc = "idle"
    /\ get_db(fs) # NotFound
    /\ lpc' = "opened"
    /\ lafter' = lastWrite.written
    /\ UNCHANGED <<cfgFile, dpc, dconfig, lastWrite, overlapped, lresult>>
    /\ UNCHANGED lastOp
    /\ UNCHANGED <<storeVars, pivotVars, kernelVars, serviceVars>>

\* load_bearing: lb_config = read_lb_config(repo_id); analyze_load_bearing.
\* The response is kept with what held when the config was read: whether a
\* declare_lb was under way, and the documents current at that moment.
LoadBearingRead ==
    /\ lpc = "opened"
    /\ LET got == read_lb_config(cfgFile)
       IN  lresult' =
              [status |-> IF got.error = "none" THEN "200" ELSE "500",
               during |-> \E w \in Workers : InProgress(w),
               after |-> lafter,
               current |-> CurrentDocs,
               body |-> IF got.error = "none"
                        THEN analyze_load_bearing(Candidates, got.config)
                        ELSE NoBody]
    /\ lpc' = "idle"
    /\ UNCHANGED <<cfgFile, dpc, dconfig, lastWrite, overlapped, lafter>>
    /\ UNCHANGED lastOp
    /\ UNCHANGED <<storeVars, pivotVars, kernelVars, serviceVars>>

ConfigInit ==
    /\ cfgFile = NoFile
    /\ dpc = [w \in Workers |-> "idle"]
    /\ dconfig = [w \in Workers |-> DefaultConfig]
    /\ lastWrite = [written |-> FALSE, config |-> DefaultConfig]
    /\ overlapped = FALSE
    /\ lpc = "idle"
    /\ lafter = FALSE
    /\ lresult = NoResponse
    /\ lastOp = NoOps

\* ---- declare_lb requests served one after the other

SequentialRequests ==
    [hash : {NULL} \cup SequentialHashes, module : {NULL} \cup DeclModules, remove : BOOLEAN]

\* The operation a request is on the hashes and modules it names.
Recorded(ops, req) ==
    LET op == IF req.remove THEN "undeclare" ELSE "declare"
    IN  [nodes |-> [h \in SequentialHashes |-> IF req.hash = h THEN op ELSE ops.nodes[h]],
         modules |-> [m \in DeclModules |-> IF req.module = m THEN op ELSE ops.modules[m]]]

\* routers/load_bearing.py declare_lb, from read_lb_config to the return of
\* write_lb_config, while no other declare_lb is under way.
declare_lb(req) ==
    /\ \A w \in Workers : ~InProgress(w)
    /\ LET got == read_lb_config(cfgFile)
           config == Modified(got.config, req)
       IN  IF got.error # "none"
           THEN UNCHANGED <<cfgFile, lastWrite, lastOp>>
           ELSE /\ cfgFile' = write_close(open_w(cfgFile), dumps(config))
                /\ lastWrite' = [written |-> TRUE, config |-> config]
                /\ lastOp' = Recorded(lastOp, req)
    /\ overlapped' = FALSE
    /\ UNCHANGED <<dpc, dconfig, lpc, lafter, lresult>>
    /\ UNCHANGED <<storeVars, pivotVars, kernelVars, serviceVars>>

\* ------------------------------------------ pivot engine (queries/explore.py)

\* queries/explore.py _SYMBOL_LIMIT
_SYMBOL_LIMIT == 500

BulkCount == 501   \* nodes of the one node class a generated snapshot may hold in bulk
MaxDims == 2       \* dimension tokens in a pivot request

\* A text value is the sequence of its pieces; SQL NULL is the empty one.
Null == <<>>
Text(s) == <<s>>

\* The `nodes` rows a generated snapshot draws from.  Rows of one class agree
\* on every column the pivot reads; scc_size is the column of the node's
\* node_features row (NULL without one).
NodeClasses ==
    << [ext |-> FALSE, module |-> Text("m1"), name |-> Text("run"),
        kind |-> Text("function"), caller_count |-> 2, scc_size |-> <<2>>],
       [ext |-> FALSE, module |-> Text("core"), name |-> Text("run"),
        kind |-> Text("function"), caller_count |-> 1, scc_size |-> <<2>>],
       [ext |-> FALSE, module |-> Text("m1"), name |-> Text("__init__"),
        kind |-> Text("method"), caller_count |-> 0, scc_size |-> <<1>>],
       [ext |-> FALSE, module |-> Null, name |-> Text("orphan"),
        kind |-> Text("function"), caller_count |-> 0, scc_size |-> Null],
       [ext |-> TRUE, module |-> Text("__external__"), name |-> Text("print"),
        kind |-> Text("function"), caller_count |-> 3, scc_size |-> Null] >>

ClassIds == DOMAIN NodeClasses

\* The `edges` rows a generated snapshot draws from: every node of the caller
\* class calls every node of the callee class, call_count times.  A snapshot
\* holds the rows whose two ends it holds.
CallClasses ==
    << [caller |-> 1, callee |-> 2, call_count |-> 2],
       [caller |-> 2, callee |-> 1, call_count |-> 1],
       [caller |-> 3, callee |-> 2, call_count |-> 3],
       [caller |-> 1, callee |-> 3, call_count |-> 1],
       [caller |-> 4, callee |-> 1, call_count |-> 1],
       [caller |-> 1, callee |-> 5, call_count |-> 1] >>

\* Snapshots the pivot runs on: how many rows of each class `nodes` holds, and
\* whether the node_features table exists.
PivotSnapshots ==
    [count : { f \in [ClassIds -> {0, 1, BulkCount}] :
                 \A c \in ClassIds :
                    NodeClasses[c].kind # Text("method") => f[c] <= 1 },
     has_nf : BOOLEAN]

\* BINARY collation of the text values the snapshots produce (NULL sorts first).
Collation ==
    << Null, Text("__external__"), <<"__external__", "::", "print">>,
       Text("__init__"), Text("alive"), Text("clean"), Text("core"),
       <<"core", "::", "run">>, Text("dead"), Text("function"), Text("in-cycle"),
       Text("m1"), <<"m1", "::", "__init__">>, <<"m1", "::", "run">>,
       Text("method"), Text("orphan"), Text("print"), Text("run") >>

Rank(v) == CHOOSE i \in 1..Len(Collation) : Collation[i] = v

\* queries/explore.py AVAILABLE_DIMENSIONS and _ENRICHED_DIMS, for the
\* dimensions whose columns NodeClasses carries.
AVAILABLE_DIMENSIONS == {"module", "kind", "symbol", "dead", "in_cycle"}
_ENRICHED_DIMS == {"in_cycle"}

Coalesce(v, default) == IF v = Null THEN default ELSE v[1]

\* The SQL expression of a dimension, on one row.
DimValue(d, row) ==
    CASE d = "module" -> row.module
      [] d = "kind" -> row.kind
      [] d = "symbol" -> IF row.module = Null \/ row.name = Null THEN Null
                         ELSE row.module \o <<"::">> \o row.name
      [] d = "dead" -> IF row.caller_count = 0 THEN Text("dead") ELSE Text("alive")
      [] d = "in_cycle" -> IF Coalesce(row.scc_size, 1) > 1 THEN Text("in-cycle")
                           ELSE Text("clean")

\* queries/explore.py SPECIAL_MEASURES, for the measure the model computes.
SPECIAL_MEASURES == {"symbol_count"}

\* The tokens of a request.
DimTokens == AVAILABLE_DIMENSIONS \cup {"bogus"}
\* Requests that nest three resolved dimensions.
NestedDims == {"module", "kind", "symbol"}
NestedDimLists ==
    { l \in [1..Cardinality(NestedDims) -> NestedDims] :
        \A i, k \in DOMAIN l : i # k => l[i] # l[k] }
DimLists == UNION { [1..n -> DimTokens] : n \in 0..MaxDims } \cup NestedDimLists
MeasureLists == { <<"symbol_count">>, <<"bogus">> }
KindFilters == { <<>>, <<Text("function")>> }

Elements(seq) == { seq[i] : i \in 1..Len(seq) }

\* queries/explore.py parse_measure, mapped over measures_raw
parse_measures(measures_raw) == SelectSeq(measures_raw, LAMBDA s : s \in SPECIAL_MEASURES)

\* queries/explore.py measure_sql is not None
measure_valid(m, has_nf) == m \in SPECIAL_MEASURES

\* queries/explore.py _resolve_dims: the keys of the dimensions that resolve
_resolve_dims(dimensions, has_nf) ==
    SelectSeq(dimensions,
              LAMBDA d : d \in AVAILABLE_DIMENSIONS /\ ~(d \in _ENRICHED_DIMS /\ ~has_nf))

\* WHERE n.hash NOT LIKE 'ext:%' plus _kinds_clause: the classes whose rows pass
where_ignoring_hash(db, kinds) ==
    { c \in ClassIds : /\ db.count[c] > 0
                       /\ kinds = <<>> \/ NodeClasses[c].kind \in Elements(kinds) }

where_internal(db, kinds) ==
    { c \in ClassIds : /\ db.count[c] > 0
                       /\ ~NodeClasses[c].ext
                       /\ kinds = <<>> \/ NodeClasses[c].kind \in Elements(kinds) }

RECURSIVE RowCount(_, _)
\* COUNT(*) over the rows of a set of classes
RowCount(db, classes) ==
    IF classes = {} THEN 0
    ELSE LET c == CHOOSE x \in classes : TRUE
         IN  db.count[c] + RowCount(db, classes \ {c})

\* ORDER BY over group keys: position by position, in collation order
KeyLess(a, b) ==
    \E i \in 1..Len(a) :
        /\ Rank(a[i]) < Rank(b[i])
        /\ \A k \in 1..(i - 1) : a[k] = b[k]

RECURSIVE OrderKeys(_)
OrderKeys(keys) ==
    IF keys = {} THEN <<>>
    ELSE LET least == CHOOSE a \in keys : \A b \in keys \ {a} : KeyLess(a, b)
         IN  <<least>> \o OrderKeys(keys \ {least})

\* queries/explore.py _pivot_sql, executed: one row per group of the resolved
\* dimensions, with its COUNT(*), ordered by the group key
_pivot_sql(db, dims, kinds) ==
    LET passing == where_internal(db, kinds)
        KeyOf(c) == [i \in 1..Len(dims) |-> DimValue(dims[i], NodeClasses[c])]
        groups == OrderKeys({ KeyOf(c) : c \in passing })
    IN  [g \in 1..Len(groups) |->
            [key |-> groups[g],
             symbol_count |-> RowCount(db, { c \in passing : KeyOf(c) = groups[g] })]]

\* A result row of the pivot tree.
Row(key, depth, symbol_count, children) ==
    [key |-> key, depth |-> depth, values |-> [symbol_count |-> symbol_count],
     children |-> children]

RECURSIVE SortBySymbolCount(_)
\* sort(key=lambda r: -(r["values"].get("symbol_count") or 0)): descending,
\* rows of equal count keep their order
SortBySymbolCount(rows) ==
    IF rows = <<>> THEN <<>>
    ELSE LET first == CHOOSE i \in 1..Len(rows) :
                        /\ \A k \in 1..Len(rows) :
                              rows[k].values.symbol_count <= rows[i].values.symbol_count
                        /\ \A k \in 1..(i - 1) :
                              rows[k].values.symbol_count < rows[i].values.symbol_count
             rest == [k \in 1..(Len(rows) - 1) |-> IF k < first THEN rows[k] ELSE rows[k + 1]]
         IN  <<rows[first]>> \o SortBySymbolCount(rest)

\* fetch_pivot: the parent level, grouped by the first dimension only, with
\* the kinds filter left out
parent_map_unfiltered(db, dims, kinds) == _pivot_sql(db, SubSeq(dims, 1, 1), <<>>)

\* fetch_pivot: the parent level, grouped by the first dimension only
parent_map(db, dims, kinds) == _pivot_sql(db, SubSeq(dims, 1, 1), kinds)

\* fetch_pivot: the leaf level, grouped by the first two dimensions
leaf_rows(db, dims, kinds) == _pivot_sql(db, SubSeq(dims, 1, 2), kinds)

\* The key dict {d0_key: ..., d1_key: ...} of a leaf row.
LeafKey(dims, key) == [d \in {dims[1], dims[2]} |-> IF d = dims[2] THEN key[2] ELSE key[1]]

\* fetch_pivot: the tree of a request with at least one resolved dimension
pivot_tree(db, dims, kinds) ==
    IF Len(dims) = 1
    THEN LET groups == _pivot_sql(db, SubSeq(dims, 1, 1), kinds)
         IN  SortBySymbolCount(
                [i \in 1..Len(groups) |->
                    Row([d \in {dims[1]} |-> groups[i].key[1]], 0,
                        groups[i].symbol_count, <<>>)])
    ELSE LET leaves == leaf_rows(db, dims, kinds)
             parents == parent_map(db, dims, kinds)
             children_map(pk) ==
                LET mine == SelectSeq(leaves, LAMBDA r : r.key[1] = pk)
                IN  [i \in 1..Len(mine) |->
                        Row(LeafKey(dims, mine[i].key), 1, mine[i].symbol_count, <<>>)]
         IN  SortBySymbolCount(
                [i \in 1..Len(parents) |->
                    Row([d \in {dims[1]} |-> parents[i].key[1]], 0,
                        parents[i].symbol_count,
                        SortBySymbolCount(children_map(parents[i].key[1])))])

\* ORDER BY n.caller_count DESC, n.name ASC over the passing classes
SymbolBefore(a, b) ==
    \/ NodeClasses[a].caller_count > NodeClasses[b].caller_count
    \/ /\ NodeClasses[a].caller_count = NodeClasses[b].caller_count
       /\ Rank(NodeClasses[a].name) < Rank(NodeClasses[b].name)
    \/ /\ NodeClasses[a].caller_count = NodeClasses[b].caller_count
       /\ NodeClasses[a].name = NodeClasses[b].name
       /\ a < b

RECURSIVE OrderClasses(_)
OrderClasses(classes) ==
    IF classes = {} THEN <<>>
    ELSE LET least == CHOOSE a \in classes : \A b \in classes \ {a} : SymbolBefore(a, b)
         IN  <<least>> \o OrderClasses(classes \ {least})

\* f"{r['module']}::{r['name']}"
FormatValue(v) == IF v = Null THEN Text("None") ELSE v

Min(a, b) == IF a <= b THEN a ELSE b

\* queries/explore.py _fetch_symbol_grain
_fetch_symbol_grain(db, parsed, has_nf, kinds) ==
    LET valid_measures == SelectSeq(parsed, LAMBDA m : measure_valid(m, has_nf))
        ordered == OrderClasses(where_internal(db, kinds))
        total == RowCount(db, where_internal(db, kinds))
        \* rows of the classes ordered before position k
        Before(k) == RowCount(db, { ordered[x] : x \in 1..(k - 1) })
        ClassAt(i) == ordered[CHOOSE k \in 1..Len(ordered) :
                                 Before(k) < i /\ i <= Before(k) + db.count[ordered[k]]]
    IN  IF valid_measures = <<>>
        THEN [rows |-> <<>>, dimensions |-> <<"symbol">>, measures |-> <<>>,
              has_enriched |-> has_nf, symbol_total |-> 0]
        ELSE [rows |-> [i \in 1..Min(_SYMBOL_LIMIT, total) |->
                          Row([d \in {"symbol"} |->
                                 FormatValue(NodeClasses[ClassAt(i)].module) \o <<"::">>
                                 \o FormatValue(NodeClasses[ClassAt(i)].name)],
                              0, 1, <<>>)],
              dimensions |-> <<"symbol">>,
              measures |-> valid_measures,
              has_enriched |-> has_nf,
              symbol_total |-> total]

\* queries/explore.py _has_node_features
_has_node_features(db) == db.has_nf

\* queries/explore.py _DIM_SRC / _DIM_TGT, for the dimensions NodeClasses carries
_DIM_SRC == {"module", "kind", "symbol"}

\* queries/explore.py _kinds_clause, on one row
_kinds_clause(kinds, row) == kinds = <<>> \/ row.kind \in Elements(kinds)

\* The rows of `edges` JOIN nodes n1 JOIN nodes n2 that pass the WHERE clause of
\* fetch_graph_edges, as classes of CallClasses
joined_edges(db, dimension, kinds) ==
    { e \in DOMAIN CallClasses :
        LET n1 == NodeClasses[CallClasses[e].caller]
            n2 == NodeClasses[CallClasses[e].callee]
        IN  /\ db.count[CallClasses[e].caller] > 0
            /\ db.count[CallClasses[e].callee] > 0
            /\ ~n1.ext /\ ~n2.ext
            /\ DimValue(dimension, n1) # Null /\ DimValue(dimension, n2) # Null
            /\ DimValue(dimension, n1) # DimValue(dimension, n2)
            /\ _kinds_clause(kinds, n1) /\ _kinds_clause(kinds, n2) }

\* How many `edges` rows a class of CallClasses stands for in a snapshot.
EdgeRows(db, e) == db.count[CallClasses[e].caller] * db.count[CallClasses[e].callee]

RECURSIVE CountRows(_, _)
\* COUNT(*) over the rows of a set of edge classes
CountRows(db, es) ==
    IF es = {} THEN 0
    ELSE LET e == CHOOSE x \in es : TRUE
         IN  EdgeRows(db, e) + CountRows(db, es \ {e})

RECURSIVE SortByWeight(_)
\* ORDER BY weight DESC over the groups, which come in group-key order
SortByWeight(edges) ==
    IF edges = <<>> THEN <<>>
    ELSE LET first == CHOOSE i \in 1..Len(edges) :
                        /\ \A k \in 1..Len(edges) : edges[k].weight <= edges[i].weight
                        /\ \A k \in 1..(i - 1) : edges[k].weight < edges[i].weight
             rest == [k \in 1..(Len(edges) - 1) |->
                        IF k < first THEN edges[k] ELSE edges[k + 1]]
         IN  <<edges[first]>> \o SortByWeight(rest)

\* queries/explore.py fetch_graph_edges
fetch_graph_edges(db, dimension, kinds) ==
    IF dimension \notin _DIM_SRC THEN <<>>
    ELSE LET rows == joined_edges(db, dimension, kinds)
             GroupOf(e) == << DimValue(dimension, NodeClasses[CallClasses[e].caller]),
                              DimValue(dimension, NodeClasses[CallClasses[e].callee]) >>
             groups == OrderKeys({ GroupOf(e) : e \in rows })
         IN  SortByWeight(
                [g \in 1..Len(groups) |->
                    [source |-> groups[g][1], target |-> groups[g][2],
                     weight |-> CountRows(db, { e \in rows : GroupOf(e) = groups[g] })]])

\* queries/explore.py fetch_pivot (the call edges among the rows of a
\* symbol-grain response are not represented)
fetch_pivot(db, dimensions, measures_raw, kinds) ==
    LET parsed == parse_measures(measures_raw)
        has_nf == _has_node_features(db)
        dim_triples == _resolve_dims(dimensions, has_nf)
        valid_measures == SelectSeq(parsed, LAMBDA m : measure_valid(m, has_nf))
    IN  IF dimensions = <<>> \/ dimensions = <<"symbol">>
        THEN _fetch_symbol_grain(db, parsed, has_nf, kinds)
        ELSE IF dim_triples = <<>> \/ valid_measures = <<>>
        THEN [rows |-> <<>>, dimensions |-> dim_triples, measures |-> <<>>,
              has_enriched |-> has_nf,
              graph_edges |-> <<>>, leaf_graph_edges |-> <<>>]
        ELSE [rows |-> pivot_tree(db, dim_triples, kinds),
              dimensions |-> dim_triples,
              measures |-> valid_measures,
              has_enriched |-> has_nf,
              graph_edges |-> fetch_graph_edges(db, dim_triples[1], kinds),
              leaf_graph_edges |->
                  IF Len(dim_triples) >= 2
                  THEN fetch_graph_edges(db, dim_triples[2], kinds)
                  ELSE <<>>]

NoPivot ==
    [called |-> FALSE, dimensions |-> <<>>, measures_raw |-> <<>>, kinds |-> <<>>,
     response |-> [rows |-> <<>>, dimensions |-> <<>>, measures |-> <<>>,
                   has_enriched |-> FALSE]]

\* One request to the pivot endpoint, answered by fetch_pivot.
FetchPivot(dimensions, measures_raw, kinds) ==
    /\ ~pivot.called
    /\ pivot' = [called |-> TRUE, dimensions |-> dimensions,
                 measures_raw |-> measures_raw, kinds |-> kinds,
                 response |-> fetch_pivot(pdb, dimensions, measures_raw, kinds)]
    /\ UNCHANGED pdb
    /\ UNCHANGED <<storeVars, cfgVars, kernelVars, serviceVars>>

\* The response has been sent; the endpoint takes the next request.
PivotReturn ==
    /\ pivot.called
    /\ pivot' = NoPivot
    /\ UNCHANGED pdb
    /\ UNCHANGED <<storeVars, cfgVars, kernelVars, serviceVars>>

PivotInit ==
    /\ pdb \in PivotSnapshots
    /\ pivot = NoPivot

\* ------------------------------- blast radius (analytics/centrality.py)

MaxCalls == 3      \* rows of the edges table behind reverse_adj
MaxDepth == 2      \* largest max_depth of a blast-radius request

\* Hashes that occur in the edges table, in ascending order; all_nodes holds a
\* row for each but the last.
BlastHashes == <<"n1", "n2", "n3", "n4">>
all_nodes == {"n1", "n2", "n3"}
BlastModule(h) == IF h = "n3" THEN "core" ELSE "m1"
target_hash == "n1"

CallPairs == Elements(BlastHashes) \X Elements(BlastHashes)
CallGraphs == { g \in SUBSET CallPairs : Cardinality(g) <= MaxCalls }

\* queries/centrality.py fetch_blast_radius_data: callee_hash -> [caller_hash, ...]
reverse_adj(edges) ==
    [callee \in Elements(BlastHashes) |->
        SelectSeq(BlastHashes, LAMBDA caller : <<caller, callee>> \in edges)]

\* deque.pop(): the newest entry
pop(queue) == [item |-> queue[Len(queue)], rest |-> SubSeq(queue, 1, Len(queue) - 1)]

\* deque.popleft(): the oldest entry
popleft(queue) == [item |-> Head(queue), rest |-> Tail(queue)]

\* A slip that would forget what was visited.
nothing_visited(visited) == {}

\* The keys of the visited dict.
VisitedHashes(visited) == { visited[i].hash : i \in DOMAIN visited }

RECURSIVE SortByDepth(_)
\* sorted(affected_nodes, key=lambda x: x["depth"]): ascending, stable
SortByDepth(nodes) ==
    IF nodes = <<>> THEN <<>>
    ELSE LET first == CHOOSE i \in 1..Len(nodes) :
                        /\ \A k \in 1..Len(nodes) : nodes[i].depth <= nodes[k].depth
                        /\ \A k \in 1..(i - 1) : nodes[i].depth < nodes[k].depth
             rest == [k \in 1..(Len(nodes) - 1) |->
                        IF k < first THEN nodes[k] ELSE nodes[k + 1]]
         IN  <<nodes[first]>> \o SortByDepth(rest)

NoBlast ==
    [affected_count |-> 0, affected_nodes |-> <<>>, modules_affected |-> {},
     max_depth_reached |-> 0]

\* compute_blast_radius, loop body: an entry already visited or too deep is
\* dropped
BlastSkip ==
    /\ blast.pc = "bfs"
    /\ blast.queue # <<>>
    /\ LET item == popleft(blast.queue).item
       IN  /\ item.hash \in VisitedHashes(blast.visited) \/ item.depth > blast.max_depth
           /\ blast' = [blast EXCEPT !.queue = popleft(blast.queue).rest]
    /\ UNCHANGED <<storeVars, cfgVars, pivotVars, diff, cycles, serviceVars>>

\* compute_blast_radius, loop body: the entry is recorded with its depth and,
\* below max_depth, its callers not yet visited are queued one level deeper
BlastVisit ==
    /\ blast.pc = "bfs"
    /\ blast.queue # <<>>
    /\ LET item == popleft(blast.queue).item
           visited == Append(blast.visited, item)
           callers == SelectSeq(reverse_adj(blast.edges)[item.hash],
                                LAMBDA caller : caller \notin VisitedHashes(visited))
       IN  /\ item.hash \notin VisitedHashes(blast.visited)
           /\ item.depth <= blast.max_depth
           /\ blast' = [blast EXCEPT
                  !.visited = visited,
                  !.queue = popleft(blast.queue).rest \o
                      (IF item.depth < blast.max_depth
                       THEN [i \in 1..Len(callers) |->
                               [hash |-> callers[i], depth |-> item.depth + 1]]
                       ELSE <<>>)]
    /\ UNCHANGED <<storeVars, cfgVars, pivotVars, diff, cycles, serviceVars>>

\* compute_blast_radius, after the loop: the visited entries other than the
\* target that have a row in all_nodes, sorted by depth
BlastReturn ==
    /\ blast.pc = "bfs"
    /\ blast.queue = <<>>
    /\ LET affected_nodes ==
               SelectSeq(blast.visited,
                         LAMBDA v : v.hash # target_hash /\ v.hash \in all_nodes)
       IN  blast' = [blast EXCEPT
              !.pc = "done",
              !.result = [affected_count |-> Len(affected_nodes),
                          affected_nodes |-> SortByDepth(affected_nodes),
                          modules_affected |->
                              { BlastModule(affected_nodes[i].hash) :
                                  i \in DOMAIN affected_nodes },
                          max_depth_reached |-> blast.max_depth]]
    /\ UNCHANGED <<storeVars, cfgVars, pivotVars, diff, cycles, serviceVars>>

\* A call compute_blast_radius(target_hash, ..., reverse_adj, all_nodes, max_depth)
BlastInit ==
    blast \in [pc : {"bfs"}, edges : CallGraphs, max_depth : 0..MaxDepth,
               queue : {<<[hash |-> target_hash, depth |-> 0]>>},
               visited : {<<>>}, result : {NoBlast}]

BlastAtRest ==
    blast = [pc |-> "done", edges |-> {}, max_depth |-> 0, queue |-> <<>>,
             visited |-> <<>>, result |-> NoBlast]

\* -------------------------------------------- diff (analytics/diff.py)

MaxNodes == 2      \* largest max_nodes of a diff-graph request
MaxContext == 1    \* largest max_context of a diff-graph request

\* The symbols a generated snapshot may hold; their caller counts differ, so
\* that sorting neighbours by caller_count leaves no tie.
Symbols ==
    << [name |-> "f", module |-> "mod", kind |-> "fn", caller_count |-> 2],
       [name |-> "g", module |-> "mod", kind |-> "fn", caller_count |-> 1],
       [name |-> "h", module |-> "core", kind |-> "fn", caller_count |-> 0] >>

SymIds == DOMAIN Symbols

\* A node row: the hash "<module_hash>:<content_hash>" is the sequence of its
\* pieces, the content hash being the symbol's name and a version.
NodeOf(i, module_hash, version) ==
    [name |-> Symbols[i].name, module |-> Symbols[i].module, kind |-> Symbols[i].kind,
     caller_count |-> Symbols[i].caller_count,
     hash |-> <<module_hash, ":", Symbols[i].name, version>>]

\* Snapshot A holds a symbol in its first version or not at all; snapshot B
\* holds it unchanged, under another module hash, with other content, or not
\* at all.
Fates == {"absent", "same", "moved", "edited"}
SnapshotA(present) == { NodeOf(i, "p1", "1") : i \in present }
SnapshotB(fate) ==
    { NodeOf(i, IF fate[i] = "moved" THEN "p2" ELSE "p1",
                IF fate[i] = "edited" THEN "2" ELSE "1") :
        i \in { k \in SymIds : fate[k] # "absent" } }

\* The calls a snapshot's edges table may hold, as (caller, callee) symbols; it
\* holds a row for each whose two ends it holds.
Calls == { <<1, 2>>, <<2, 3>>, <<3, 1>> }
EdgesOf(nodes, calls) ==
    { [caller_hash |-> a.hash, callee_hash |-> b.hash] :
        <<a, b>> \in { p \in nodes \X nodes :
                         \E c \in calls : /\ p[1].name = Symbols[c[1]].name
                                           /\ p[2].name = Symbols[c[2]].name } }

\* compute_diff_graph: vid(name, module)
vid(name, module) == <<name, "::", module>>

\* compute_diff_graph: keyed_by_vid, the keys of by_vid and its lookup
VidsOf(node_list) == { vid(n.name, n.module) : n \in node_list }
ByVid(node_list, v) == CHOOSE n \in node_list : vid(n.name, n.module) = v
ByHash(node_list, h) == CHOOSE n \in node_list : n.hash = h
HashesIn(node_list) == { n.hash : n \in node_list }

added_vids(nodes_a, nodes_b) == VidsOf(nodes_b) \ VidsOf(nodes_a)
removed_vids(nodes_a, nodes_b) == VidsOf(nodes_a) \ VidsOf(nodes_b)
common_vids(nodes_a, nodes_b) == VidsOf(nodes_a) \cap VidsOf(nodes_b)
modified_vids(nodes_a, nodes_b) ==
    { v \in common_vids(nodes_a, nodes_b) : ByVid(nodes_a, v).hash # ByVid(nodes_b, v).hash }
changed_vids(nodes_a, nodes_b) ==
    added_vids(nodes_a, nodes_b) \cup removed_vids(nodes_a, nodes_b)
        \cup modified_vids(nodes_a, nodes_b)

\* compute_diff_graph: all_info, which prefers snapshot B
all_info(nodes_a, nodes_b, v) ==
    IF v \in VidsOf(nodes_b) THEN ByVid(nodes_b, v) ELSE ByVid(nodes_a, v)

\* compute_diff_graph: adjacency, as the set of (caller vid, callee vid) pairs
adjacency(edges, node_list) ==
    { << vid(ByHash(node_list, e.caller_hash).name, ByHash(node_list, e.caller_hash).module),
         vid(ByHash(node_list, e.callee_hash).name, ByHash(node_list, e.callee_hash).module) >> :
        e \in { x \in edges : /\ x.caller_hash \in HashesIn(node_list)
                               /\ x.callee_hash \in HashesIn(node_list) } }
callers(adj, v) == { p[1] : p \in { q \in adj : q[2] = v } }
callees(adj, v) == { p[2] : p \in { q \in adj : q[1] = v } }

\* sorted(..., key=-caller_count)[:n], as a set
TopByCallerCount(vids, n, nodes_a, nodes_b) ==
    { x \in vids :
        Cardinality({ y \in vids : all_info(nodes_a, nodes_b, y).caller_count
                                      > all_info(nodes_a, nodes_b, x).caller_count }) < n }

\* compute_diff_graph: top_neighbors, with adj given as callers or callees of
\* one snapshot
top_neighbors(vids, adj, side, n, nodes_a, nodes_b) ==
    UNION { TopByCallerCount(IF side = "callers" THEN callers(adj, v) ELSE callees(adj, v),
                             n, nodes_a, nodes_b)
                \ changed_vids(nodes_a, nodes_b) : v \in vids }

\* compute_diff_graph: context before the node cap
context_of(nodes_a, nodes_b, edges_a, edges_b, max_context) ==
    LET adj_a == adjacency(edges_a, nodes_a)
        adj_b == adjacency(edges_b, nodes_b)
        added == added_vids(nodes_a, nodes_b)
        removed == removed_vids(nodes_a, nodes_b)
        modified == modified_vids(nodes_a, nodes_b)
        half == (max_context \div 2) + 1
    IN  top_neighbors(added, adj_b, "callers", max_context, nodes_a, nodes_b)
        \cup top_neighbors(added, adj_b, "callees", max_context, nodes_a, nodes_b)
        \cup top_neighbors(removed, adj_a, "callers", max_context, nodes_a, nodes_b)
        \cup top_neighbors(removed, adj_a, "callees", max_context, nodes_a, nodes_b)
        \cup top_neighbors(modified, adj_b, "callers", half, nodes_a, nodes_b)
        \cup top_neighbors(modified, adj_b, "callees", half, nodes_a, nodes_b)

Max(a, b) == IF a >= b THEN a ELSE b

\* compute_diff_graph with the node cap left out
keep_context(context, changed, max_nodes, nodes_a, nodes_b) == context

\* compute_diff_graph: the node cap, which trims context by caller_count
trim_context(context, changed, max_nodes, nodes_a, nodes_b) ==
    IF Cardinality(changed \cup context) > max_nodes
    THEN TopByCallerCount(context, Max(0, max_nodes - Cardinality(changed)),
                          nodes_a, nodes_b)
    ELSE context

\* compute_diff_graph: status, with the modified case forgotten
status_by_presence(v, nodes_a, nodes_b) ==
    IF v \in added_vids(nodes_a, nodes_b) THEN "added"
    ELSE IF v \in removed_vids(nodes_a, nodes_b) THEN "removed"
    ELSE "context"

\* compute_diff_graph: status
status(v, nodes_a, nodes_b) ==
    IF v \in added_vids(nodes_a, nodes_b) THEN "added"
    ELSE IF v \in removed_vids(nodes_a, nodes_b) THEN "removed"
    ELSE IF v \in modified_vids(nodes_a, nodes_b) THEN "modified"
    ELSE "context"

\* analytics/diff.py compute_diff_graph; nodes and edges of the result are the
\* sets of the entries of its lists
compute_diff_graph(nodes_a, nodes_b, edges_a, edges_b, max_context, max_nodes) ==
    LET changed == changed_vids(nodes_a, nodes_b)
        context == trim_context(context_of(nodes_a, nodes_b, edges_a, edges_b, max_context),
                                changed, max_nodes, nodes_a, nodes_b)
        all_vids == added_vids(nodes_a, nodes_b) \cup removed_vids(nodes_a, nodes_b)
                       \cup modified_vids(nodes_a, nodes_b) \cup context
        edge_vids_set(edges, node_list) ==
            { p \in adjacency(edges, node_list) : p[1] \in all_vids /\ p[2] \in all_vids }
        ev_a == edge_vids_set(edges_a, nodes_a)
        ev_b == edge_vids_set(edges_b, nodes_b)
        Tagged(pairs, tag) == { [source |-> p[1], target |-> p[2], status |-> tag] : p \in pairs }
    IN  [nodes |-> { [id |-> v,
                      name |-> all_info(nodes_a, nodes_b, v).name,
                      module |-> all_info(nodes_a, nodes_b, v).module,
                      kind |-> all_info(nodes_a, nodes_b, v).kind,
                      caller_count |-> all_info(nodes_a, nodes_b, v).caller_count,
                      status |-> status(v, nodes_a, nodes_b)] : v \in all_vids },
         edges |-> Tagged(ev_b \ ev_a, "added") \cup Tagged(ev_a \ ev_b, "removed")
                      \cup Tagged(ev_a \cap ev_b, "unchanged"),
         stats |-> [added |-> Cardinality(added_vids(nodes_a, nodes_b)),
                    removed |-> Cardinality(removed_vids(nodes_a, nodes_b)),
                    modified |-> Cardinality(modified_vids(nodes_a, nodes_b)),
                    context |-> Cardinality(context),
                    edge_added |-> Cardinality(ev_b \ ev_a),
                    edge_removed |-> Cardinality(ev_a \ ev_b),
                    edge_unchanged |-> Cardinality(ev_a \cap ev_b)]]

\* The module_edges rows of a snapshot: its calls grouped by the modules of
\* their two ends, with the number of calls.
ModEdgesOf(nodes, edges) ==
    LET adj == { <<ByHash(nodes, e.caller_hash).module, ByHash(nodes, e.callee_hash).module>> :
                   e \in edges }
    IN  { [caller_module |-> k[1], callee_module |-> k[2],
           edge_count |-> Cardinality({ e \in edges :
                              /\ ByHash(nodes, e.caller_hash).module = k[1]
                              /\ ByHash(nodes, e.callee_hash).module = k[2] })] : k \in adj }

\* round(x, 3) of the quotient num / den, in thousandths
Round3(num, den) == (2000 * num + den) \div (2 * den)

\* analytics/diff.py compute_diff; the lists of the result, all shorter than
\* their caps of 50 and 30 entries, are the sets of their entries
compute_diff(nodes_a, nodes_b, mod_edges_a, mod_edges_b) ==
    LET key(n) == <<n.name, n.module>>
        keys_a == { key(n) : n \in nodes_a }
        keys_b == { key(n) : n \in nodes_b }
        added == { n \in nodes_b : key(n) \notin keys_a }
        removed == { n \in nodes_a : key(n) \notin keys_b }
        common == keys_a \cap keys_b
        edge_key(e) == <<e.caller_module, e.callee_module>>
        mea == { edge_key(e) : e \in mod_edges_a }
        meb == { edge_key(e) : e \in mod_edges_b }
    IN  [similarity |-> Round3(Cardinality(common),
                               Max(Cardinality(keys_a \cup keys_b), 1)),
         nodes_added |-> Cardinality(added),
         nodes_removed |-> Cardinality(removed),
         nodes_common |-> Cardinality(common),
         added |-> added,
         removed |-> removed,
         module_edges_added |->
             { [from |-> e.caller_module, to |-> e.callee_module, count |-> e.edge_count] :
                 e \in { x \in mod_edges_b : edge_key(x) \notin mea } },
         module_edges_removed |->
             { [from |-> e.caller_module, to |-> e.callee_module, count |-> e.edge_count] :
                 e \in { x \in mod_edges_a : edge_key(x) \notin meb } }]

NoDiffGraph == [nodes |-> {}, edges |-> {}, stats |-> <<>>]
NoDiffSummary == [similarity |-> 0, nodes_added |-> 0, nodes_removed |-> 0,
                  nodes_common |-> 0]

\* POST /api/diff-graph: compute_diff_graph on the two snapshots
DiffGraph ==
    /\ diff.op = "none"
    /\ diff' = [diff EXCEPT
           !.op = "graph",
           !.graph = compute_diff_graph(diff.nodes_a, diff.nodes_b,
                                        EdgesOf(diff.nodes_a, diff.calls),
                                        EdgesOf(diff.nodes_b, diff.calls),
                                        diff.max_context, diff.max_nodes)]
    /\ UNCHANGED <<storeVars, cfgVars, pivotVars, blast, cycles, serviceVars>>

\* POST /api/diff: compute_diff on the two snapshots
Diff ==
    /\ diff.op = "none"
    /\ diff' = [diff EXCEPT
           !.op = "diff",
           !.summary = compute_diff(diff.nodes_a, diff.nodes_b,
                          ModEdgesOf(diff.nodes_a, EdgesOf(diff.nodes_a, diff.calls)),
                          ModEdgesOf(diff.nodes_b, EdgesOf(diff.nodes_b, diff.calls)))]
    /\ UNCHANGED <<storeVars, cfgVars, pivotVars, blast, cycles, serviceVars>>

DiffInit ==
    \E present \in SUBSET SymIds, fate \in [SymIds -> Fates], calls \in SUBSET Calls,
       max_context \in 0..MaxContext, max_nodes \in 0..MaxNodes :
        diff = [op |-> "none", nodes_a |-> SnapshotA(present), nodes_b |-> SnapshotB(fate),
                calls |-> calls, max_context |-> max_context, max_nodes |-> max_nodes,
                graph |-> NoDiffGraph, summary |-> NoDiffSummary]

DiffAtRest ==
    diff = [op |-> "idle", nodes_a |-> {}, nodes_b |-> {}, calls |-> {},
            max_context |-> 0, max_nodes |-> 0,
            graph |-> NoDiffGraph, summary |-> NoDiffSummary]

\* ------------------------------------------ cycles (analytics/cycles.py)

MaxCycleCalls == 4   \* rows of the edges table given to find_cycles

\* The nodes of the call graph and the calls its edges table may hold, each
\* (caller, callee) pair at most once, with a call_count.
CycleHashes == {"c1", "c2", "c3", "c4"}
CycleModule(h) == IF h \in {"c1", "c2"} THEN "m1" ELSE "m2"
CyclePairs == { p \in CycleHashes \X CycleHashes : p[1] # p[2] \/ p[1] = "c1" }
CallCounts == {1, 2}
CycleEdgeLists ==
    UNION { [pairs -> CallCounts] :
              pairs \in { ps \in SUBSET CyclePairs : Cardinality(ps) <= MaxCycleCalls } }
ResultCaps == {1, 20}

\* find_cycles: the SCCs of more than one node
sccs_of(edges) ==
    { scc \in strongly_connected_components([nodes |-> CycleHashes, edges |-> DOMAIN edges]) :
        Cardinality(scc) > 1 }

\* find_cycles: G.edges(scc), every edge that leaves a node of the SCC
edges_from(scc, edges) == { e \in DOMAIN edges : e[1] \in scc }

\* find_cycles: intra, the edges from a node of the SCC to a node of the SCC
intra(scc, edges) == { e \in DOMAIN edges : e[1] \in scc /\ e[2] \in scc }

\* The rows of the edges table in the order the query returns them: by
\* caller, then by callee in this order.
RowOrder == <<"c1", "c2", "c3", "c4">>
RowRank(h) == CHOOSE i \in DOMAIN RowOrder : RowOrder[i] = h

\* min(intra, key=call_count): the edges it may return.  Among edges of equal
\* call_count it returns the first in the iteration order of G.edges(scc):
\* the callers in the order of list(scc), the order of a set of strings, which
\* changes from one process to the next; the calls of one caller in the order
\* of their rows.
weakest_of(scc, edges) ==
    LET least == { e \in intra(scc, edges) :
                     \A o \in intra(scc, edges) : edges[e] <= edges[o] }
    IN  { e \in least :
            \A o \in least : o[1] = e[1] => RowRank(e[2]) <= RowRank(o[2]) }

\* sorted(sccs, key=len, reverse=True): the orders it may return
SortedBySize(sccs) ==
    { order \in [1..Cardinality(sccs) -> sccs] :
        /\ \A scc \in sccs : \E i \in DOMAIN order : order[i] = scc
        /\ \A i, k \in DOMAIN order :
              i < k => Cardinality(order[i]) >= Cardinality(order[k]) }

\* One entry of the result of find_cycles.
CycleEntry(scc, weakest, edges) ==
    LET modules_in_cycle == { CycleModule(h) : h \in scc }
    IN  [size |-> Cardinality(scc),
         cross_module |-> Cardinality(modules_in_cycle) > 1,
         modules |-> modules_in_cycle,
         nodes |-> scc,
         break_suggestion |-> [caller_hash |-> weakest[1], callee_hash |-> weakest[2],
                               caller_module |-> CycleModule(weakest[1]),
                               callee_module |-> CycleModule(weakest[2]),
                               call_count |-> edges[weakest]]]

\* analytics/cycles.py find_cycles
FindCycles ==
    /\ cycles.op = "none"
    /\ \E sccs \in {sccs_of(cycles.edges)} :
       \E order \in SortedBySize(sccs) :
       \E weakest \in [sccs -> DOMAIN cycles.edges] :
          /\ \A scc \in sccs : weakest[scc] \in weakest_of(scc, cycles.edges)
          /\ cycles' = [cycles EXCEPT
                 !.op = "done",
                 !.results = [i \in 1..Min(cycles.max_results, Len(order)) |->
                                 CycleEntry(order[i], weakest[order[i]], cycles.edges)]]
    /\ UNCHANGED <<storeVars, cfgVars, pivotVars, blast, diff, serviceVars>>

CyclesInit ==
    \E edges \in CycleEdgeLists, max_results \in ResultCaps :
        cycles = [op |-> "none", edges |-> edges, max_results |-> max_results,
                  results |-> <<>>]

CyclesAtRest ==
    cycles = [op |-> "idle", edges |-> <<>>, max_results |-> 0, results |-> <<>>]

\* ------------------------- pattern detection (analytics/pattern_detector.py)

MaxInstances == 2  \* instances one detector returns

\* The head of the detector table: (pattern_key, display_name).
DETECTORS ==
    << [pattern |-> "singleton",      display_name |-> "Singleton"],
       [pattern |-> "factory_method", display_name |-> "Factory Method"],
       [pattern |-> "observer",       display_name |-> "Observer / Event Bus"] >>

\* inst["confidence"], in hundredths.
Confidences == {40, 90}

\* min_confidence: the default 0.50 and the 0.0 of the tests.
MinConfidences == {0, 50}

Raised == "raised"

\* What a call detector_fn(nodes, out_adj, in_adj) does: it raises, or it
\* returns its raw instances (each stands for its confidence; node labels are
\* not represented).
DetectorOutcomes ==
    { [raises |-> TRUE, raw |-> <<>>] }
       \cup { [raises |-> FALSE, raw |-> raw] :
                raw \in UNION { [1..n -> Confidences] : n \in 0..MaxInstances } }

\* The loop body's filter: `if inst["confidence"] < min_confidence: continue`.
kept_instances(raw, min_confidence) ==
    SelectSeq(raw, LAMBDA c : ~(c < min_confidence))

\* A slip that would let a detector's exception leave detect_all_patterns.
propagate(p) == [p EXCEPT !.pc = Raised]

\* `except Exception: pass`: the loop goes on with the next detector.
detector_error(p) == [p EXCEPT !.i = p.i + 1]

RECURSIVE SortByCount(_)
\* results.sort(key=lambda r: r["count"], reverse=True): descending, stable
SortByCount(results) ==
    IF results = <<>> THEN <<>>
    ELSE LET first == CHOOSE i \in 1..Len(results) :
                        /\ \A k \in 1..Len(results) : results[i].count >= results[k].count
                        /\ \A k \in 1..(i - 1) : results[i].count > results[k].count
             rest == [k \in 1..(Len(results) - 1) |->
                        IF k < first THEN results[k] ELSE results[k + 1]]
         IN  <<results[first]>> \o SortByCount(rest)

\* One iteration of `for pattern_key, display_name, detector_fn in DETECTORS`.
DetectorRun ==
    /\ patterns.pc = "loop"
    /\ patterns.i <= Len(DETECTORS)
    /\ LET raw == patterns.outcome[patterns.i].raw
       IN  IF patterns.outcome[patterns.i].raises
           THEN patterns' = detector_error(patterns)
           ELSE LET instances == kept_instances(raw, patterns.min_confidence)
                IN  patterns' =
                       [patterns EXCEPT
                          !.i = @ + 1,
                          !.results =
                             IF instances # <<>>
                             THEN Append(@, [pattern |-> DETECTORS[patterns.i].pattern,
                                             display_name |-> DETECTORS[patterns.i].display_name,
                                             count |-> Len(instances),
                                             instances |-> instances])
                             ELSE @]
    /\ UNCHANGED <<jobs, response>>
    /\ UNCHANGED <<storeVars, cfgVars, pivotVars, kernelVars>>

\* The loop is over: sort and return.
DetectReturn ==
    /\ patterns.pc = "loop"
    /\ patterns.i > Len(DETECTORS)
    /\ patterns' = [patterns EXCEPT !.pc = "done", !.results = SortByCount(@)]
    /\ UNCHANGED <<jobs, response>>
    /\ UNCHANGED <<storeVars, cfgVars, pivotVars, kernelVars>>

\* A call detect_all_patterns(conn, min_confidence), after _load_graph.
PatternsInit ==
    patterns \in [pc : {"loop"}, i : {1}, outcome : [DOMAIN DETECTORS -> DetectorOutcomes],
                  min_confidence : MinConfidences, results : {<<>>}]

PatternsAtRest ==
    patterns = [pc |-> "idle", i |-> 0, outcome |-> <<>>, min_confidence |-> 0,
                results |-> <<>>]

\* ------------------------------- repo import (build/lib/routers/import_repo.py)

MaxJobs == 2       \* import jobs started in one process lifetime

\* job_id = uuid.uuid4().hex[:8], taken to be an id no earlier job has.
JobIds == 1..MaxJobs

NoJob == [status |-> "absent", progress |-> 0, repo_id |-> NULL,
          enrich_warning |-> FALSE, pc |-> "none"]

NoImportResponse == [error |-> FALSE, job_id |-> 0, status |-> "none"]

\* A slip that would put a failed job back in the queue.
requeue(job) == [job EXCEPT !.status = "queued", !.pc = "exit"]

\* A slip that would leave the thread waiting on a step without a timeout.
hang(job) == [job EXCEPT !.pc = "blocked"]

\* `except Exception as exc: jobs[job_id].update({"status": "error", ...})`,
\* then the finally clause and the end of the thread.
on_exception(job) == [job EXCEPT !.status = "error", !.pc = "exit"]

\* upd(status, message, progress)
upd(job, new_status, new_progress) ==
    [job EXCEPT !.status = new_status, !.progress = new_progress]

\* What subprocess.run(..., timeout=...) and the check after it come to.
StepOutcomes == {"ok", "failed", "timeout"}

\* POST /api/import.  An unrecognised URL is answered with an error and no
\* job; otherwise the job is stored as queued and its thread started.
start_import(valid) ==
    /\ IF ~valid
       THEN /\ response' = [error |-> TRUE, job_id |-> 0, status |-> "none"]
            /\ UNCHANGED jobs
       ELSE \E job_id \in JobIds :
               /\ jobs[job_id] = NoJob
               /\ \A earlier \in 1..(job_id - 1) : jobs[earlier] # NoJob
               /\ jobs' = [jobs EXCEPT ![job_id] =
                              [status |-> "queued", progress |-> 0, repo_id |-> NULL,
                               enrich_warning |-> FALSE, pc |-> "start"]]
               /\ response' = [error |-> FALSE, job_id |-> job_id, status |-> "queued"]
    /\ UNCHANGED patterns
    /\ UNCHANGED <<storeVars, cfgVars, pivotVars, kernelVars>>

\* _run_import up to upd("cloning", ...): the URL start_import accepted parses
\* again, and repo_id is set.
ImportBegin(job_id) ==
    /\ jobs[job_id].pc = "start"
    /\ jobs' = [jobs EXCEPT ![job_id] =
                   [upd(@, "cloning", 10) EXCEPT !.repo_id = "repo@HEAD", !.pc = "clone"]]
    /\ UNCHANGED <<patterns, response>>
    /\ UNCHANGED <<storeVars, cfgVars, pivotVars, kernelVars>>

\* Step 1, git clone, up to upd("indexing", ...).
ImportClone(job_id, outcome) ==
    /\ jobs[job_id].pc = "clone"
    /\ jobs' = [jobs EXCEPT ![job_id] =
                   IF outcome = "ok"
                   THEN [upd(@, "indexing", 35) EXCEPT !.pc = "index"]
                   ELSE on_exception(@)]
    /\ UNCHANGED <<patterns, response>>
    /\ UNCHANGED <<storeVars, cfgVars, pivotVars, kernelVars>>

\* Step 2, index generate, up to upd("exporting", ...).
ImportIndex(job_id, outcome) ==
    /\ jobs[job_id].pc = "index"
    /\ jobs' = [jobs EXCEPT ![job_id] =
                   IF outcome = "ok"
                   THEN [upd(@, "exporting", 65) EXCEPT !.pc = "export"]
                   ELSE on_exception(@)]
    /\ UNCHANGED <<patterns, response>>
    /\ UNCHANGED <<storeVars, cfgVars, pivotVars, kernelVars>>

\* Step 3, index export and the db_path.exists() check, up to
\* upd("enriching", ...).
ImportExport(job_id, outcome) ==
    /\ jobs[job_id].pc = "export"
    /\ jobs' = [jobs EXCEPT ![job_id] =
                   IF outcome = "ok"
                   THEN [upd(@, "enriching", 80) EXCEPT !.pc = "enrich"]
                   ELSE on_exception(@)]
    /\ UNCHANGED <<patterns, response>>
    /\ UNCHANGED <<storeVars, cfgVars, pivotVars, kernelVars>>

\* Step 4, enrich.py, to the end of the thread: a non-zero exit is recorded as
\* a warning and the job is done; a timeout raises.
ImportEnrich(job_id, outcome) ==
    /\ jobs[job_id].pc = "enrich"
    /\ jobs' = [jobs EXCEPT ![job_id] =
                   IF outcome = "timeout"
                   THEN on_exception(@)
                   ELSE [upd(@, "done", 100) EXCEPT
                            !.enrich_warning = (outcome = "failed"), !.pc = "exit"]]
    /\ UNCHANGED <<patterns, response>>
    /\ UNCHANGED <<storeVars, cfgVars, pivotVars, kernelVars>>

\* The steps of the thread start_import started for job_id.
RunImport(job_id) ==
    \/ ImportBegin(job_id)
    \/ \E outcome \in StepOutcomes : ImportClone(job_id, outcome)
    \/ \E outcome \in StepOutcomes : ImportIndex(job_id, outcome)
    \/ \E outcome \in StepOutcomes : ImportExport(job_id, outcome)
    \/ \E outcome \in StepOutcomes : ImportEnrich(job_id, outcome)

\* `jobs: dict[str, dict] = {}` at process start.
JobsAtRest ==
    /\ jobs = [job_id \in JobIds |-> NoJob]
    /\ response = NoImportResponse

ServicesAtRest == PatternsAtRest /\ JobsAtRest

\* ----------------------------------------------------------- specifications

\* The store a config or pivot specification runs beside: a raw snapshot, no
\* enrichment run, no request.
StoreAtRest ==
    /\ fs = [p \in Paths |->
                IF p = RawPath
                THEN DbFile([nodes |-> NodeRows, edges |-> {}, module_edges |-> {},
                             has_nf |-> FALSE, node_features |-> {}])
                ELSE AbsentFile]
    /\ epc = "idle"
    /\ firstNF = NoResult
    /\ fault = "none"
    /\ hitsFailed = FALSE
    /\ rpc = "idle"
    /\ rpath = NotFound
    /\ seen = NothingSeen

PivotAtRest ==
    /\ pdb = [count |-> [c \in ClassIds |-> 0], has_nf |-> FALSE]
    /\ pivot = NoPivot

KernelsAtRest == BlastAtRest /\ DiffAtRest /\ CyclesAtRest

\* Enrichment runs and requests on the snapshot store.
Init == StoreInit /\ ConfigInit /\ PivotAtRest /\ KernelsAtRest /\ ServicesAtRest

Next ==
    \/ EnrichCopyOpen
    \/ EnrichCopyDone
    \/ EnrichCreateTable
    \/ \E raises \in Raises, first \in Modules : EnrichCompute(raises, first)
    \/ ReqOpen
    \/ ReqQuery

Spec == Init /\ [][Next]_vars

\* Two pool threads serving declare requests and one serving load_bearing.
InitConfig == StoreAtRest /\ ConfigInit /\ PivotAtRest /\ KernelsAtRest /\ ServicesAtRest

NextConfig ==
    \/ \E w \in Workers, req \in LBDeclareRequest : DeclareRead(w, req)
    \/ \E w \in Workers : DeclareOpen(w)
    \/ \E w \in Workers : DeclareWrite(w)
    \/ LoadBearingOpen
    \/ LoadBearingRead

SpecConfig == InitConfig /\ [][NextConfig]_vars

\* Pivot requests on a generated snapshot.
InitPivot == StoreAtRest /\ ConfigInit /\ PivotInit /\ KernelsAtRest /\ ServicesAtRest

NextPivot ==
    \/ \E dimensions \in DimLists, measures_raw \in MeasureLists, kinds \in KindFilters :
          FetchPivot(dimensions, measures_raw, kinds)
    \/ PivotReturn

SpecPivot == InitPivot /\ [][NextPivot]_vars

\* One blast-radius computation on a generated call graph.
InitBlast == StoreAtRest /\ ConfigInit /\ PivotAtRest /\ BlastInit /\ DiffAtRest /\ CyclesAtRest /\ ServicesAtRest

NextBlast ==
    \/ BlastSkip
    \/ BlastVisit
    \/ BlastReturn

SpecBlast == InitBlast /\ [][NextBlast]_vars

\* One diff kernel on two generated snapshots.
InitDiff == StoreAtRest /\ ConfigInit /\ PivotAtRest /\ BlastAtRest /\ DiffInit /\ CyclesAtRest /\ ServicesAtRest

NextDiff ==
    \/ DiffGraph
    \/ Diff

SpecDiff == InitDiff /\ [][NextDiff]_vars

\* One cycle detection on a generated call graph.
InitCycles == StoreAtRest /\ ConfigInit /\ PivotAtRest /\ BlastAtRest /\ DiffAtRest /\ CyclesInit /\ ServicesAtRest

NextCycles == FindCycles

SpecCycles == InitCycles /\ [][NextCycles]_vars

\* ------------------------------------------------- claims on the store (Spec)

DerivedPath == enriched_path(RawPath)
InternalHashes == { h \in HashesOf(fs[RawPath].db.nodes) : ~IsExt(h) }
InternalCallEdges ==
    { e \in fs[RawPath].db.edges : e[1] \in InternalHashes /\ e[2] \in InternalHashes }

\* C1: a request that opens the repo while an enrichment run is in progress
\* finds either the complete pre-enrichment state or the complete
\* post-enrichment state: the file it opened is readable, and if it is the
\* derived snapshot its node_features table exists and holds a row for every
\* internal node.
C1_AtomicPublication ==
    seen.path # "none" =>
        /\ seen.readable
        /\ seen.path = DerivedPath =>
              /\ seen.has_nf
              /\ HashesOf(seen.node_features) = InternalHashes

\* C2: no enrichment step and no request step changes the raw snapshot (its
\* nodes, edges and module_edges, and its lack of a node_features table).
C2_RawImmutable == [][fs'[RawPath] = fs[RawPath]]_vars

\* C2 witness: an enrichment run has written the derived snapshot's
\* node_features and a request has read it.
C2_Witness ==
    /\ epc = "done"
    /\ fs[DerivedPath].db.node_features # {}
    /\ seen.path = DerivedPath
    /\ seen.node_features # {}

\* C6: every run of enrichment that returns leaves a node_features table
\* identical to the one the first run wrote.
C6_Idempotent ==
    (epc = "done" /\ firstNF.written) =>
        fs[DerivedPath].db.node_features = firstNF.rows

\* C7: when a step fails the run still completes, a row is written for every
\* internal node, and the failing step's fields hold their defaults.
C7_StepIsolated ==
    fault # "none" =>
        /\ epc = "done"
        /\ HashesOf(fs[DerivedPath].db.node_features) = InternalHashes
        /\ \A r \in fs[DerivedPath].db.node_features :
              /\ fault = "SCC signals" => r.scc_size = 1 /\ r.scc_cross_module = 0
              /\ fault = "Reachability" =>
                    r.transitive_callers = 0 /\ r.transitive_callees = 0
              /\ fault = "Centrality" => r.pagerank = Zero /\ r.hub_score = Zero
              /\ fault = "Boundary signals" => r.xmod_fan_in = 0 /\ r.xmod_fan_out = 0

\* C8: in every written row, transitive_callees is the number of distinct
\* other nodes reachable along call edges and transitive_callers the number
\* of distinct other nodes that reach the node.
C8_ReachabilityExact ==
    \A r \in fs[DerivedPath].db.node_features :
        /\ r.transitive_callees =
              Cardinality(Closure({r.hash}, InternalCallEdges) \ {r.hash})
        /\ r.transitive_callers =
              Cardinality(Closure({r.hash}, Reverse(InternalCallEdges)) \ {r.hash})


\* ------------------------------------------ claims on the config (SpecConfig)

\* C3: a request that reads the config while a declare or undeclare is in
\* progress gets a complete document, the old one or a new one: its read
\* parses, and the config it is handed is the one written last or one a
\* request in progress is writing.
C3_AtomicConfigWrite ==
    (lresult.status # "none" /\ lresult.during) =>
        /\ lresult.status = "200"
        /\ lresult.body.config \in lresult.current

\* C4: once two overlapping declare/undeclare requests have both returned, the
\* stored document is exactly the document of the request that wrote last.
C4_LastWriterWins ==
    (overlapped /\ lastWrite.written /\ \A w \in Workers : ~InProgress(w)) =>
        /\ cfgFile.exists
        /\ cfgFile.text = dumps(lastWrite.config)

\* C5: a load-bearing request that starts after a declare or undeclare has
\* returned classifies the candidates with the updated config: it answers,
\* the config it used is the one written last or one being written when it
\* read, and every candidate that config declares is reported as explicit.
C5_NoStaleConfig ==
    (lresult.status # "none" /\ lresult.after) =>
        /\ lresult.status = "200"
        /\ lresult.body.config \in lresult.current
        /\ \A i \in 1..Len(Candidates) :
              InList(Candidates[i].hash, lresult.body.config.declared_nodes) =>
                  InList([hash |-> Candidates[i].hash, declaration |-> "explicit"],
                         lresult.body.declared_load_bearing)

\* --------------------------------------------- claims on the pivot (SpecPivot)

\* The request carries the symbol_count measure.
WithSymbolCount == pivot.called /\ "symbol_count" \in Elements(pivot.measures_raw)

\* The internal rows of `nodes` that match the request's kind filter.
MatchingInternal ==
    { c \in ClassIds : /\ ~NodeClasses[c].ext
                       /\ pivot.kinds = <<>> \/ NodeClasses[c].kind \in Elements(pivot.kinds) }

RECURSIVE CountIn(_)
CountIn(classes) ==
    IF classes = {} THEN 0
    ELSE LET c == CHOOSE x \in classes : TRUE
         IN  pdb.count[c] + CountIn(classes \ {c})

MatchingCount == CountIn(MatchingInternal)

RECURSIVE SumOver(_, _, _)
\* f[lo] + ... + f[hi], by halves
SumOver(f, lo, hi) ==
    IF lo > hi THEN 0
    ELSE IF lo = hi THEN f[lo]
    ELSE LET mid == (lo + hi) \div 2
         IN  SumOver(f, lo, mid) + SumOver(f, mid + 1, hi)

RECURSIVE LeafSum(_)
\* The sum of symbol_count over the rows without children, at any depth.
LeafSum(rows) ==
    SumOver([i \in 1..Len(rows) |->
                IF rows[i].children = <<>> THEN rows[i].values.symbol_count
                ELSE LeafSum(rows[i].children)],
            1, Len(rows))

ChildSum(row) ==
    SumOver([i \in 1..Len(row.children) |-> row.children[i].values.symbol_count],
            1, Len(row.children))

\* The request has the symbol grain: no dimension, or "symbol" alone.
SymbolGrain == pivot.dimensions = <<>> \/ pivot.dimensions = <<"symbol">>

\* Some requested dimension is known and, if it reads node_features, the table exists.
SomeDimResolves ==
    \E i \in 1..Len(pivot.dimensions) :
        /\ pivot.dimensions[i] \in AVAILABLE_DIMENSIONS
        /\ pivot.dimensions[i] \in _ENRICHED_DIMS => pdb.has_nf

\* Every requested dimension is known and, if it reads node_features, the table exists.
AllDimsResolve ==
    \A i \in 1..Len(pivot.dimensions) :
        /\ pivot.dimensions[i] \in AVAILABLE_DIMENSIONS
        /\ pivot.dimensions[i] \in _ENRICHED_DIMS => pdb.has_nf

\* C9 as stated: for a request with the symbol_count measure and any list of
\* dimensions the snapshot supports, the leaf rows' symbol_count sums to the
\* number of internal nodes matching the kind filter.
C9_LeafSumConserved ==
    (WithSymbolCount /\ AllDimsResolve) => LeafSum(pivot.response.rows) = MatchingCount

\* C9 amended: with the symbol_count measure, the leaf rows' symbol_count sums
\* to the number of internal nodes matching the kind filter when the request
\* is not of symbol grain and at least one of its dimensions resolves; in
\* symbol grain the sum is that number capped at _SYMBOL_LIMIT and
\* symbol_total is the number; when no dimension resolves there are no rows.
C9_LeafSumAmended ==
    WithSymbolCount =>
        IF SymbolGrain
        THEN /\ LeafSum(pivot.response.rows) = Min(_SYMBOL_LIMIT, MatchingCount)
             /\ pivot.response.symbol_total = MatchingCount
        ELSE IF SomeDimResolves
        THEN LeafSum(pivot.response.rows) = MatchingCount
        ELSE pivot.response.rows = <<>>

\* C9 witness: a two-level pivot under a kind filter over more matching
\* internal nodes than the symbol-grain cap, beside external nodes.
C9_Witness ==
    /\ WithSymbolCount
    /\ ~SymbolGrain
    /\ Len(pivot.response.dimensions) = 2
    /\ \E i \in 1..Len(pivot.response.rows) : Len(pivot.response.rows[i].children) >= 1
    /\ MatchingCount > _SYMBOL_LIMIT
    /\ \E c \in ClassIds : NodeClasses[c].ext /\ pdb.count[c] > 0

RECURSIVE ParentsAreSums(_)
ParentsAreSums(rows) ==
    \A i \in 1..Len(rows) :
        rows[i].children # <<>> =>
            /\ rows[i].values.symbol_count = ChildSum(rows[i])
            /\ ParentsAreSums(rows[i].children)

\* C10: in a pivot tree with the symbol_count measure, every row that has
\* children has symbol_count equal to the sum of its direct children's
\* symbol_count, at every level.
C10_ParentIsChildSum == WithSymbolCount => ParentsAreSums(pivot.response.rows)

\* C10 witness: under a kind filter that drops some of a parent's nodes, a
\* parent row with two children.
C10_Witness ==
    /\ WithSymbolCount
    /\ pivot.kinds # <<>>
    /\ \E c \in ClassIds : /\ ~NodeClasses[c].ext /\ pdb.count[c] > 0
                            /\ NodeClasses[c].kind \notin Elements(pivot.kinds)
    /\ \E i \in 1..Len(pivot.response.rows) :
          /\ Len(pivot.response.rows[i].children) >= 2
          /\ pivot.response.rows[i].values.symbol_count >= 2

\* A pivot-grain request answered with three resolved dimensions and a measure.
ThreeResolved ==
    /\ pivot.called
    /\ ~SymbolGrain
    /\ Len(pivot.response.dimensions) = 3
    /\ pivot.response.measures # <<>>

\* C11: a pivot request with three resolved dimensions returns a three-level
\* tree: the rows are at depth 0 and each has children, their children are at
\* depth 1, and the children of those are depth-2 leaves whose key holds all
\* three dimensions.
C11_ThreeLevelTree ==
    ThreeResolved =>
        \A i \in DOMAIN pivot.response.rows :
            LET d0 == pivot.response.rows[i]
            IN  /\ d0.depth = 0
                /\ d0.children # <<>>
                /\ \A j \in DOMAIN d0.children :
                      LET d1 == d0.children[j]
                      IN  /\ d1.depth = 1
                          /\ d1.children # <<>>
                          /\ \A k \in DOMAIN d1.children :
                                /\ d1.children[k].depth = 2
                                /\ d1.children[k].children = <<>>
                                /\ DOMAIN d1.children[k].key
                                      = Elements(pivot.response.dimensions)

RECURSIVE KeysOf(_)
\* The dimensions that key the rows of a tree, at any depth.
KeysOf(rows) ==
    UNION { DOMAIN rows[i].key \cup KeysOf(rows[i].children) : i \in DOMAIN rows }

\* C12: unknown dimension and measure tokens never cause an error: they are
\* silently dropped, and the dimensions and measures lists of the result hold
\* exactly the tokens that were applied to the query (the dimensions that key
\* its rows, the measures its rows carry).
C12_TokensApplied ==
    pivot.called =>
        /\ Elements(pivot.response.dimensions) \subseteq AVAILABLE_DIMENSIONS
        /\ Elements(pivot.response.measures) \subseteq SPECIAL_MEASURES
        /\ pivot.response.rows # <<>> =>
              /\ Elements(pivot.response.dimensions) = KeysOf(pivot.response.rows)
              /\ \A i \in DOMAIN pivot.response.rows :
                    Elements(pivot.response.measures)
                        = DOMAIN pivot.response.rows[i].values

RECURSIVE CallersAt(_, _)
\* The hashes with a caller chain of exactly k calls to the target.
CallersAt(edges, k) ==
    IF k = 0 THEN {target_hash}
    ELSE { e[1] : e \in { c \in edges : c[2] \in CallersAt(edges, k - 1) } }

\* The length of the shortest caller chain of at least one call from h to the
\* target, within max_depth (0 when there is none).
ShortestChain(edges, h, max_depth) ==
    IF \E k \in 1..max_depth : h \in CallersAt(edges, k)
    THEN CHOOSE k \in 1..max_depth :
            /\ h \in CallersAt(edges, k)
            /\ \A j \in 1..(k - 1) : h \notin CallersAt(edges, j)
    ELSE 0

\* C13: blast_radius returns exactly the nodes other than the target that can
\* reach the target through a caller chain of length between 1 and max_depth,
\* each with depth equal to the length of its shortest such chain, sorted by
\* depth ascending.
C13_BlastRadiusExact ==
    blast.pc = "done" =>
        LET affected == blast.result.affected_nodes
        IN  /\ { affected[i] : i \in DOMAIN affected }
                 = { [hash |-> h,
                      depth |-> ShortestChain(blast.edges, h, blast.max_depth)] :
                       h \in { n \in all_nodes \ {target_hash} :
                                 ShortestChain(blast.edges, n, blast.max_depth) > 0 } }
            /\ Len(affected) = Cardinality({ affected[i] : i \in DOMAIN affected })
            /\ \A i, k \in DOMAIN affected : i < k => affected[i].depth <= affected[k].depth

\* A finished computation that went two levels up, past a hash without a row.
C13_Witness ==
    /\ blast.pc = "done"
    /\ blast.max_depth >= 2
    /\ \E i \in DOMAIN blast.result.affected_nodes :
          blast.result.affected_nodes[i].depth = 2
    /\ \E i \in DOMAIN blast.visited : blast.visited[i].hash \notin all_nodes
    /\ <<target_hash, target_hash>> \in blast.edges

\* The two snapshots of the diff and what the cap applies to.
DiffChanged == changed_vids(diff.nodes_a, diff.nodes_b)
DiffContext ==
    context_of(diff.nodes_a, diff.nodes_b, EdgesOf(diff.nodes_a, diff.calls),
               EdgesOf(diff.nodes_b, diff.calls), diff.max_context)
GraphIds == { n.id : n \in diff.graph.nodes }

\* C14 as stated: the diff subgraph never contains more than max_nodes nodes in
\* total.
C14_NodeCap == diff.op = "graph" => Cardinality(diff.graph.nodes) <= diff.max_nodes

\* C14, amended: the diff subgraph never contains more than max_nodes nodes or
\* the number of changed nodes, whichever is larger; beyond max_nodes it holds
\* the changed nodes and no context.
C14_NodeCapAmended ==
    diff.op = "graph" =>
        /\ Cardinality(diff.graph.nodes)
              <= Max(diff.max_nodes, Cardinality(DiffChanged))
        /\ Cardinality(diff.graph.nodes) > diff.max_nodes => GraphIds = DiffChanged

\* The cap trimmed context nodes of a diff whose changed nodes fit under it.
C14_Witness ==
    /\ diff.op = "graph"
    /\ Cardinality(DiffChanged) <= diff.max_nodes
    /\ Cardinality(DiffChanged \cup DiffContext) > diff.max_nodes
    /\ Cardinality(diff.graph.nodes) = diff.max_nodes
    /\ GraphIds \ DiffChanged # {}

\* The content portion of a hash: the part after the first ':'.
ContentPortion(hash) == SubSeq(hash, 3, Len(hash))

\* The nodes present in both snapshots whose content portions differ.
ContentModified ==
    { v \in common_vids(diff.nodes_a, diff.nodes_b) :
        ContentPortion(ByVid(diff.nodes_a, v).hash)
            # ContentPortion(ByVid(diff.nodes_b, v).hash) }

Reported(v, tag) == \E n \in diff.graph.nodes : n.id = v /\ n.status = tag

\* C15: the diff subgraph includes every changed node (added, removed or
\* modified) with its status; when the node cap forces trimming, only context
\* nodes are trimmed.
C15_ChangedKept ==
    diff.op = "graph" =>
        /\ \A v \in added_vids(diff.nodes_a, diff.nodes_b) : Reported(v, "added")
        /\ \A v \in removed_vids(diff.nodes_a, diff.nodes_b) : Reported(v, "removed")
        /\ \A v \in ContentModified : Reported(v, "modified")
        /\ \A v \in (DiffChanged \cup DiffContext) \ GraphIds : v \in DiffContext \ DiffChanged

\* The cap trimmed the context of a diff with an added and a modified node.
C15_Witness ==
    /\ diff.op = "graph"
    /\ added_vids(diff.nodes_a, diff.nodes_b) # {}
    /\ ContentModified # {}
    /\ DiffContext \ GraphIds # {}

\* C16: a node present in both snapshots under the same (name, module) is
\* reported as modified exactly when the content portion of its hash differs
\* between the two snapshots; a change in the module-hash prefix alone does not
\* make it modified.
C16_ModifiedByContent ==
    diff.op = "graph" =>
        \A v \in common_vids(diff.nodes_a, diff.nodes_b) :
            Reported(v, "modified") <=> v \in ContentModified

\* C17: for any snapshot s, compute_diff(s, s) returns similarity = 1.0,
\* nodes_added = 0 and nodes_removed = 0 (similarity is held in thousandths).
C17_DiffIdentity ==
    (diff.op = "diff" /\ diff.nodes_a = diff.nodes_b) =>
        /\ diff.summary.similarity = 1000
        /\ diff.summary.nodes_added = 0
        /\ diff.summary.nodes_removed = 0

\* C18: for every reported cycle, break_suggestion is an edge whose caller and
\* callee are both members of that SCC and whose call_count is minimal among
\* all edges inside that SCC.
C18_BreakSuggestionWeakest ==
    cycles.op = "done" =>
        \A i \in DOMAIN cycles.results :
            LET entry == cycles.results[i]
                b == entry.break_suggestion
                inside == { e \in DOMAIN cycles.edges :
                              e[1] \in entry.nodes /\ e[2] \in entry.nodes }
            IN  /\ <<b.caller_hash, b.callee_hash>> \in inside
                /\ b.call_count = cycles.edges[<<b.caller_hash, b.callee_hash>>]
                /\ \A e \in inside : b.call_count <= cycles.edges[e]

\* A reported cycle that a call weaker than its break suggestion leaves.
C18_Witness ==
    /\ cycles.op = "done"
    /\ \E i \in DOMAIN cycles.results :
          LET entry == cycles.results[i]
          IN  \E e \in DOMAIN cycles.edges :
                 /\ e[1] \in entry.nodes /\ e[2] \notin entry.nodes
                 /\ cycles.edges[e] < entry.break_suggestion.call_count

\* A pivot-grain response that carries a tree.
PivotGrain ==
    /\ pivot.called
    /\ ~SymbolGrain
    /\ pivot.response.dimensions # <<>>
    /\ pivot.response.measures # <<>>

\* The calls of the snapshot between two internal nodes that pass the kind
\* filter and have a value in a dimension, as classes of CallClasses.
CallsAmongGroups(d) ==
    { e \in DOMAIN CallClasses :
        /\ pdb.count[CallClasses[e].caller] > 0
        /\ pdb.count[CallClasses[e].callee] > 0
        /\ CallClasses[e].caller \in MatchingInternal
        /\ CallClasses[e].callee \in MatchingInternal
        /\ DimValue(d, NodeClasses[CallClasses[e].caller]) # Null
        /\ DimValue(d, NodeClasses[CallClasses[e].callee]) # Null }

\* The (source group, target group) of a call in a dimension.
GroupPair(d, e) ==
    << DimValue(d, NodeClasses[CallClasses[e].caller]),
       DimValue(d, NodeClasses[CallClasses[e].callee]) >>

\* The pairs of distinct groups of a dimension joined by a call (none for a
\* dimension without source and target expressions).
InducedPairs(d) ==
    IF d \in _DIM_SRC
    THEN { p \in { GroupPair(d, e) : e \in CallsAmongGroups(d) } : p[1] # p[2] }
    ELSE {}

PairsOf(edges) == { <<edges[i].source, edges[i].target>> : i \in DOMAIN edges }

\* C19: when a pivot has two or more resolved dimensions, graph_edges are the
\* induced edges grouped by the first dimension and leaf_graph_edges are the
\* induced edges grouped by the last (deepest) dimension.
C19_LeafEdgesDeepest ==
    (PivotGrain /\ Len(pivot.response.dimensions) >= 2) =>
        LET dims == pivot.response.dimensions
        IN  /\ PairsOf(pivot.response.graph_edges) = InducedPairs(dims[1])
            /\ PairsOf(pivot.response.leaf_graph_edges) = InducedPairs(dims[Len(dims)])

RECURSIVE TotalCallCount(_, _)
\* The total call count of a set of call classes in the snapshot.
TotalCallCount(d, es) ==
    IF es = {} THEN 0
    ELSE LET e == CHOOSE x \in es : TRUE
         IN  EdgeRows(pdb, e) * CallClasses[e].call_count + TotalCallCount(d, es \ {e})

\* C20: the induced subgraph has one edge for each distinct (source group,
\* target group) pair with source different from target, and that edge's
\* weight equals the total call count of the call edges going from a node of
\* the source group to a node of the target group.
C20_InducedWeights ==
    PivotGrain =>
        LET d == pivot.response.dimensions[1]
            edges == pivot.response.graph_edges
        IN  /\ Len(edges) = Cardinality(InducedPairs(d))
            /\ { edges[i] : i \in DOMAIN edges }
                 = { [source |-> p[1], target |-> p[2],
                      weight |-> TotalCallCount(d, { e \in CallsAmongGroups(d) :
                                                       GroupPair(d, e) = p })] :
                       p \in InducedPairs(d) }

\* ------------------------------------------- opening a repo (db.py get_db)

\* The data directory a request can find: each of the two files absent or
\* present, the derived one also as an interrupted run left it (partly copied,
\* or copied with an empty node_features table).
StoredSnapshots == { snap \in RawSnapshots : snap.edges = {} }

OpenInit ==
    /\ \E raw \in {AbsentFile} \cup { DbFile(snap) : snap \in StoredSnapshots },
          derived \in {AbsentFile, PartialFile}
                        \cup { DbFile([snap EXCEPT !.has_nf = TRUE]) : snap \in StoredSnapshots } :
          fs = [p \in Paths |-> IF p = RawPath THEN raw ELSE derived]
    /\ epc = "idle"
    /\ firstNF = NoResult
    /\ fault = "none"
    /\ hitsFailed = FALSE
    /\ rpc = "idle"
    /\ rpath = NotFound
    /\ seen = NothingSeen

InitOpen == OpenInit /\ ConfigInit /\ PivotAtRest /\ KernelsAtRest /\ ServicesAtRest

NextOpen ==
    \/ ReqOpen
    \/ ReqQuery

SpecOpen == InitOpen /\ [][NextOpen]_vars

\* C21: opening a repo returns the derived snapshot whenever its file exists,
\* the raw snapshot otherwise, and fails with NotFound (no connection is
\* opened) when the repo has neither file.
C21_OpenPrefersDerived ==
    [][ReqOpen =>
          /\ exists(fs[DerivedPath]) => rpath' = DerivedPath
          /\ ~exists(fs[DerivedPath]) /\ exists(fs[RawPath]) => rpath' = RawPath
          /\ ~exists(fs[DerivedPath]) /\ ~exists(fs[RawPath]) =>
                rpath' = NotFound /\ rpc' = "idle"
          /\ rpath' # NotFound => rpc' = "opened"]_vars

\* A request holds the derived snapshot of a repo whose raw snapshot is also
\* on disk.
C21_Witness ==
    /\ rpc = "opened"
    /\ rpath = DerivedPath
    /\ exists(fs[RawPath])

\* One pattern detection over generated detector outcomes.
InitPatterns == StoreAtRest /\ ConfigInit /\ PivotAtRest /\ KernelsAtRest /\ PatternsInit /\ JobsAtRest

NextPatterns ==
    \/ DetectorRun
    \/ DetectReturn

SpecPatterns == InitPatterns /\ [][NextPatterns]_vars

\* The detectors that returned, with at least one instance at or above
\* min_confidence.
Contributing ==
    { d \in DOMAIN DETECTORS :
        /\ ~patterns.outcome[d].raises
        /\ kept_instances(patterns.outcome[d].raw, patterns.min_confidence) # <<>> }

\* C22: if a pattern detector raises, detect_all_patterns still returns
\* normally: no exception leaves it, and what it returns holds one entry for
\* every other detector that found instances, with those instances, and no
\* entry for the detector that raised.
C22_DetectorErrorsContained ==
    /\ patterns.pc # Raised
    /\ patterns.pc = "done" =>
          /\ Len(patterns.results) = Cardinality(Contributing)
          /\ \A d \in Contributing :
                \E r \in DOMAIN patterns.results :
                   /\ patterns.results[r].pattern = DETECTORS[d].pattern
                   /\ patterns.results[r].instances =
                         kept_instances(patterns.outcome[d].raw, patterns.min_confidence)
                   /\ patterns.results[r].count = Len(patterns.results[r].instances)

\* detect_all_patterns has returned results although its second detector raised.
C22_Witness ==
    /\ patterns.pc = "done"
    /\ patterns.outcome[2].raises
    /\ Len(patterns.results) = 2

\* Import requests and the threads of the jobs they start.
InitImport == StoreAtRest /\ ConfigInit /\ PivotAtRest /\ KernelsAtRest /\ PatternsAtRest /\ JobsAtRest

NextImport ==
    \/ \E valid \in BOOLEAN : start_import(valid)
    \/ \E job_id \in JobIds : RunImport(job_id)

SpecImport == InitImport /\ [][NextImport]_vars

\* The same, with every started thread scheduled until it ends: each of its
\* steps is a bounded computation or a subprocess.run with a timeout.
SpecImportFair ==
    SpecImport /\ \A job_id \in JobIds : WF_vars(RunImport(job_id))

Progression == <<"queued", "cloning", "indexing", "exporting", "enriching", "done">>

\* C23: an import job's status only advances along queued, cloning, indexing,
\* exporting, enriching, done, one step at a time, or moves from one of the
\* steps before done to error; it never moves backwards and never leaves done
\* or error.
C23_StatusProgression ==
    [][\A job_id \in JobIds :
          jobs[job_id] # NoJob =>
             \/ jobs'[job_id].status = jobs[job_id].status
             \/ \E i \in 1..(Len(Progression) - 1) :
                   /\ jobs[job_id].status = Progression[i]
                   /\ jobs'[job_id].status = Progression[i + 1]
             \/ /\ jobs[job_id].status \notin {"done", "error"}
                /\ jobs'[job_id].status = "error"]_vars

\* One job failed while enriching and another one is done.
C23_Witness ==
    \E failed, finished \in JobIds :
       /\ jobs[failed].status = "error"
       /\ jobs[failed].progress = 80
       /\ jobs[finished].status = "done"

\* C27: every import job start_import created eventually reaches status done
\* or error; it stays neither queued nor in an intermediate step forever.
C27_JobsFinish ==
    \A job_id \in JobIds :
       (jobs[job_id] # NoJob) ~> (jobs[job_id].status \in {"done", "error"})

\* A job is done although its enrichment exited with an error.
C27_Witness ==
    \E job_id \in JobIds :
       /\ jobs[job_id].status = "done"
       /\ jobs[job_id].enrich_warning

\* C24: in every node_features row of the derived snapshot,
\* scc_cross_module = 1 implies scc_size > 1.
C24_CrossModuleNeedsCycle ==
    \A row \in fs[DerivedPath].db.node_features :
       row.scc_cross_module = 1 => row.scc_size > 1

\* The derived snapshot holds a row of a cycle that spans two modules.
C24_Witness ==
    /\ epc = "done"
    /\ \E row \in fs[DerivedPath].db.node_features : row.scc_cross_module = 1

\* C25: enriching a snapshot with no internal nodes succeeds (the run does
\* not fail) and leaves a derived snapshot whose node_features table exists
\* and is empty.
C25_EmptySnapshotEnriches ==
    InternalHashes = {} =>
       /\ epc # "failed"
       /\ epc = "done" =>
             /\ fs[DerivedPath].state = "db"
             /\ fs[DerivedPath].db.has_nf
             /\ fs[DerivedPath].db.node_features = {}

\* A run is done on a snapshot that holds external nodes only.
C25_Witness ==
    /\ epc = "done"
    /\ InternalHashes = {}
    /\ fs[RawPath].db.nodes # {}
    /\ fs[DerivedPath].db.has_nf

\* C30: after every successful enrichment of a snapshot with at least one
\* internal node, a repeated run over an existing derived snapshot included,
\* node_features holds exactly one row for each internal (non-ext:) node and
\* no row for any other hash.
C30_OneRowPerInternalNode ==
    (epc = "done" /\ InternalHashes # {}) =>
       /\ fs[DerivedPath].db.has_nf
       /\ HashesOf(fs[DerivedPath].db.node_features) = InternalHashes
       /\ Cardinality(fs[DerivedPath].db.node_features) = Cardinality(InternalHashes)

\* A repeated run is done (its rows differ from the first run's) on a
\* snapshot that holds internal nodes and an external one.
C30_Witness ==
    /\ epc = "done"
    /\ firstNF.written
    /\ firstNF.rows # fs[DerivedPath].db.node_features
    /\ InternalHashes # {}
    /\ InternalHashes # HashesOf(fs[RawPath].db.nodes)

\* declare_lb requests served one after the other on one repo.
InitDeclare == StoreAtRest /\ ConfigInit /\ PivotAtRest /\ KernelsAtRest /\ ServicesAtRest

NextDeclare == \E req \in SequentialRequests : declare_lb(req)

SpecDeclare == InitDeclare /\ [][NextDeclare]_vars

StoredConfig == read_lb_config(cfgFile).config

NoDuplicates(list) == \A i, k \in 1..Len(list) : list[i] = list[k] => i = k

\* C26: after any sequence of non-overlapping declare and undeclare
\* operations on a repo, declared_nodes and declared_modules hold no
\* duplicates, and a hash or module is in the stored config exactly when the
\* most recent operation on it was a declare.
C26_SequentialDeclares ==
    /\ read_lb_config(cfgFile).error = "none"
    /\ NoDuplicates(StoredConfig.declared_nodes)
    /\ NoDuplicates(StoredConfig.declared_modules)
    /\ \A h \in SequentialHashes :
          InList(h, StoredConfig.declared_nodes) <=> lastOp.nodes[h] = "declare"
    /\ \A m \in DeclModules :
          InList(m, StoredConfig.declared_modules) <=> lastOp.modules[m] = "declare"

\* Two hashes are declared, a third was declared and then undeclared, and the
\* module was undeclared.
C26_Witness ==
    /\ Len(StoredConfig.declared_nodes) = 2
    /\ \E h \in SequentialHashes : lastOp.nodes[h] = "undeclare"
    /\ lastOp.modules["ui"] = "undeclare"

\* The blast-radius computation with its loop run to the end: every iteration
\* is a bounded step of one thread.
SpecBlastFair == SpecBlast /\ WF_vars(NextBlast)

EntryHashes(entries) == { entries[i].hash : i \in DOMAIN entries }

\* C28: the blast-radius traversal terminates on every finite call graph,
\* graphs with cycles and self-loops included, and no node appears more than
\* once in affected_nodes (nor in the visited entries they are taken from).
C28_BlastTerminates ==
    /\ <>(blast.pc = "done")
    /\ [](/\ Len(blast.visited) = Cardinality(EntryHashes(blast.visited))
          /\ Len(blast.result.affected_nodes)
                = Cardinality(EntryHashes(blast.result.affected_nodes)))

\* A finished traversal of a graph in which the target and a caller call each
\* other and the caller calls itself.
C28_Witness ==
    /\ blast.pc = "done"
    /\ {<<"n2", target_hash>>, <<target_hash, "n2">>, <<"n2", "n2">>} \subseteq blast.edges
    /\ blast.result.affected_count >= 1

\* The break suggestion of a result entry, as an edge.
SuggestedEdge(entry) ==
    <<entry.break_suggestion.caller_hash, entry.break_suggestion.callee_hash>>

\* C29: the break suggestion is deterministic: when several edges inside an
\* SCC tie for the minimum call_count, the same edge is chosen on every run
\* over the same nodes and edges, that is, the edge a run returned is the only
\* one a run over these nodes and edges can return.
C29_BreakSuggestionDeterministic ==
    cycles.op = "done" =>
       \A i \in DOMAIN cycles.results :
          weakest_of(cycles.results[i].nodes, cycles.edges)
             = { SuggestedEdge(cycles.results[i]) }

====
